---- MODULE Spec2Model ----
(***************************************************************************)
(* YAML schema migration engine of meroku (app/migrations.go): version     *)
(* detection, the migration registry and runner, the backup gate and the   *)
(* two entry points loadEnvWithMigration and MigrateYAMLFile.              *)
(***************************************************************************)
EXTENDS Integers, Sequences, FiniteSets, TLC

(***************************************************************************)
(* Dynamically typed YAML values (Go interface{}).  Every value is a       *)
(* record of one shape so that any two values can be compared:             *)
(*   t  the dynamic type: nil, bool, int, float, str, list,                *)
(*      map  (map[interface{}]interface{}, what yaml.v2 decodes),          *)
(*      smap (map[string]interface{}, what the Go code constructs and the  *)
(*            type of the top-level document),                             *)
(*      panic (the result of a runtime panic, e.g. a write to a nil map)   *)
(*   n  the number of a bool (0/1), an int, or a float in tenths           *)
(*   s  the characters of a string                                         *)
(*   m  the entries of a map                                               *)
(*   l  the elements of a list                                             *)
(***************************************************************************)
NoMap == [k \in {} |-> 0]

VNil == [t |-> "nil", n |-> 0, s |-> <<>>, m |-> NoMap, l |-> <<>>]

VBool(b) == [VNil EXCEPT !.t = "bool", !.n = IF b THEN 1 ELSE 0]

VInt(i) == [VNil EXCEPT !.t = "int", !.n = i]

VFloat(tenths) == [VNil EXCEPT !.t = "float", !.n = tenths]

VStr(chars) == [VNil EXCEPT !.t = "str", !.s = chars]

VMap(f) == [VNil EXCEPT !.t = "map", !.m = f]

VSMap(f) == [VNil EXCEPT !.t = "smap", !.m = f]

VList(q) == [VNil EXCEPT !.t = "list", !.l = q]

Panicked == [VNil EXCEPT !.t = "panic"]

\* String literals of the source, as character sequences.
S_empty == <<>>

S_dev == <<"d", "e", "v">>

S_prod == <<"p", "r", "o", "d">>

S_dot == <<".">>

S_local == <<"l", "o", "c", "a", "l">>

S_cross_account == <<"c", "r", "o", "s", "s", "_", "a", "c", "c", "o", "u", "n", "t">>

S_256 == <<"2", "5", "6">>

S_512 == <<"5", "1", "2">>

S_cidr == <<"1", "0", ".", "0", ".", "0", ".", "0", "/", "1", "6">>

S_create_ecr == <<"c", "r", "e", "a", "t", "e", "_", "e", "c", "r">>

(***************************************************************************)
(* Go map operations on a document value.                                  *)
(***************************************************************************)
Upd(f, k, v) == [y \in (DOMAIN f) \cup {k} |-> IF y = k THEN v ELSE f[y]]

Without(f, k) == [y \in (DOMAIN f) \ {k} |-> f[y]]

\* _, exists := data[k]   (reading a nil map finds nothing)
Has(d, k) == k \in DOMAIN d.m

\* data[k]   (the zero value nil when the key is absent)
Get(d, k) == IF k \in DOMAIN d.m THEN d.m[k] ELSE VNil

\* data[k] = v   (an assignment to an entry of a nil map panics)
Put(d, k, v) ==
    IF d.t \in {"nil", "panic"} THEN Panicked ELSE [d EXCEPT !.m = Upd(d.m, k, v)]

\* delete(data, k)   (a no-op on a nil map)
Delete(d, k) ==
    IF d.t = "panic" THEN Panicked ELSE [d EXCEPT !.m = Without(d.m, k)]

\* sub, ok := data[k].(map[interface{}]interface{})
IsYMap(d, k) == Has(d, k) /\ d.m[k].t = "map"

\* _, exists := sub[f]   with sub the map under data[k]
SubHas(d, k, f) == f \in DOMAIN d.m[k].m

\* sub[f]
SubGet(d, k, f) == IF f \in DOMAIN d.m[k].m THEN d.m[k].m[f] ELSE VNil

\* sub[f] = v   (sub aliases the map stored under data[k])
SubPut(d, k, f, v) == [d EXCEPT !.m[k].m = Upd(d.m[k].m, f, v)]

\* if _, exists := sub[f]; !exists { sub[f] = v }
SubDefault(d, k, f, v) == IF SubHas(d, k, f) THEN d ELSE SubPut(d, k, f, v)

\* Go's == on two interface values: unequal dynamic types compare false,
\* equal values of a comparable type compare true.
GoEq(a, b) == a = b

\* Go's == panics when both operands hold the same uncomparable dynamic type.
GoEqPanics(a, b) == a.t = b.t /\ a.t \in {"map", "smap", "list"}

CurrentSchemaVersion == 12

(***************************************************************************)
(* Faulty variants of detectSchemaVersion, used to show that the           *)
(* properties below depend on it.                                          *)
(***************************************************************************)
\* the re-detection looks at az_count only
detectOnlyAZ(data) ==
    IF Has(data, "schema_version") /\ Get(data, "schema_version").t = "int"
    THEN LET version == Get(data, "schema_version").n IN
         IF version = 6 /\ Has(data, "az_count") THEN 5 ELSE version
    ELSE IF Has(data, "account_id") THEN 5
    ELSE IF IsYMap(data, "workload") /\ SubHas(data, "workload", "backend_desired_count") THEN 4
    ELSE IF IsYMap(data, "domain") /\ SubHas(data, "domain", "zone_id") THEN 3
    ELSE IF IsYMap(data, "postgres") /\ SubHas(data, "postgres", "aurora") THEN 2
    ELSE 1

\* the structural checks run oldest first
detectOldestFirst(data) ==
    IF Has(data, "schema_version") /\ Get(data, "schema_version").t = "int"
    THEN LET version == Get(data, "schema_version").n IN
         IF version = 6 /\ Has(data, "az_count") THEN 5
         ELSE IF version = 6 /\ Has(data, "create_private_subnets") THEN 5
         ELSE IF version = 6 /\ Has(data, "enable_nat_gateway") THEN 5
         ELSE version
    ELSE IF IsYMap(data, "postgres") /\ SubHas(data, "postgres", "aurora") THEN 2
    ELSE IF IsYMap(data, "domain") /\ SubHas(data, "domain", "zone_id") THEN 3
    ELSE IF IsYMap(data, "workload") /\ SubHas(data, "workload", "backend_desired_count") THEN 4
    ELSE IF Has(data, "account_id") THEN 5
    ELSE 1

(***************************************************************************)
(* detectSchemaVersion                                                     *)
(***************************************************************************)
detectSchemaVersion(data) ==
    IF Has(data, "schema_version") /\ Get(data, "schema_version").t = "int"
    THEN LET version == Get(data, "schema_version").n IN
         IF version = 6 /\ Has(data, "az_count") THEN 5
         ELSE IF version = 6 /\ Has(data, "create_private_subnets") THEN 5
         ELSE IF version = 6 /\ Has(data, "enable_nat_gateway") THEN 5
         ELSE version
    ELSE IF Has(data, "account_id") THEN 5
    ELSE IF IsYMap(data, "workload") /\ SubHas(data, "workload", "backend_desired_count") THEN 4
    ELSE IF IsYMap(data, "domain") /\ SubHas(data, "domain", "zone_id") THEN 3
    ELSE IF IsYMap(data, "postgres") /\ SubHas(data, "postgres", "aurora") THEN 2
    ELSE 1

(***************************************************************************)
(* The migration steps.  Each maps the document to the mutated document;   *)
(* the result is Panicked when the Go function panics.  Every shipped step *)
(* ends in "return nil".                                                   *)
(***************************************************************************)
migrateToV2(data) ==
    LET d1 == IF IsYMap(data, "postgres") /\ ~SubHas(data, "postgres", "aurora")
              THEN SubPut(SubPut(SubPut(data, "postgres", "aurora", VBool(FALSE)),
                                 "postgres", "min_capacity", VFloat(5)),
                          "postgres", "max_capacity", VFloat(10))
              ELSE data
    IN  IF ~Has(d1, "alb")
        THEN Put(d1, "alb", VSMap([enabled |-> VBool(FALSE)]))
        ELSE d1

\* faulty variant: zone_id is added whatever create_domain_zone says
migrateToV3ZoneAlways(data) ==
    IF ~IsYMap(data, "domain") THEN data
    ELSE
    LET d1 == SubDefault(data, "domain", "zone_id", VStr(S_empty))
        d2 == SubDefault(d1, "domain", "root_zone_id", VStr(S_empty))
        d3 == SubDefault(d2, "domain", "root_account_id", VStr(S_empty))
        d4 == SubDefault(d3, "domain", "is_dns_root", VBool(FALSE))
        d5 == SubDefault(d4, "domain", "dns_root_account_id", VStr(S_empty))
        d6 == SubDefault(d5, "domain", "delegation_role_arn", VStr(S_empty))
        d7 == SubDefault(d6, "domain", "api_domain_prefix", VStr(S_empty))
    IN  SubDefault(d7, "domain", "add_env_domain_prefix", VBool(FALSE))

migrateToV3(data) ==
    IF ~IsYMap(data, "domain") THEN data
    ELSE
    LET val == SubGet(data, "domain", "create_domain_zone")
        createDomainZone ==
            IF SubHas(data, "domain", "create_domain_zone") /\ val.t = "bool"
            THEN val.n = 1 ELSE TRUE
        d1 == IF ~createDomainZone
              THEN SubDefault(data, "domain", "zone_id", VStr(S_empty)) ELSE data
        d2 == SubDefault(d1, "domain", "root_zone_id", VStr(S_empty))
        d3 == SubDefault(d2, "domain", "root_account_id", VStr(S_empty))
        d4 == SubDefault(d3, "domain", "is_dns_root", VBool(FALSE))
        d5 == SubDefault(d4, "domain", "dns_root_account_id", VStr(S_empty))
        d6 == SubDefault(d5, "domain", "delegation_role_arn", VStr(S_empty))
        d7 == SubDefault(d6, "domain", "api_domain_prefix", VStr(S_empty))
    IN  SubDefault(d7, "domain", "add_env_domain_prefix", VBool(FALSE))

\* faulty variant: a present zero is kept
FixAbsentInt(d, f, def) == SubDefault(d, "workload", f, VInt(def))

\* if v, exists := workload[f]; !exists { workload[f] = def }
\* else if i, ok := v.(int); ok && i == 0 { workload[f] = def }
FixZeroInt(d, f, def) ==
    IF ~SubHas(d, "workload", f) \/ SubGet(d, "workload", f) = VInt(0)
    THEN SubPut(d, "workload", f, VInt(def)) ELSE d

\* if v, exists := workload[f]; !exists || v == "" { workload[f] = def }
FixEmptyStr(d, f, def) ==
    IF ~SubHas(d, "workload", f) \/ GoEq(SubGet(d, "workload", f), VStr(S_empty))
    THEN SubPut(d, "workload", f, VStr(def)) ELSE d

migrateToV4(data) ==
    IF ~IsYMap(data, "workload") THEN data
    ELSE
    LET d1 == FixZeroInt(data, "backend_desired_count", 1)
        d2 == SubDefault(d1, "workload", "backend_autoscaling_enabled", VBool(FALSE))
        d3 == FixZeroInt(d2, "backend_autoscaling_min_capacity", 1)
        d4 == FixZeroInt(d3, "backend_autoscaling_max_capacity", 4)
        d5 == FixEmptyStr(d4, "backend_cpu", S_256)
        d6 == FixEmptyStr(d5, "backend_memory", S_512)
    IN  SubDefault(d6, "workload", "backend_alb_domain_name", VStr(S_empty))

\* if _, exists := data[k]; !exists { data[k] = v }
Default(d, k, v) == IF Has(d, k) THEN d ELSE Put(d, k, v)

migrateToV5(data) ==
    Default(Default(data, "account_id", VStr(S_empty)), "aws_profile", VStr(S_empty))

\* if _, exists := data[k]; exists { delete(data, k) }
Remove(d, k) == IF Has(d, k) THEN Delete(d, k) ELSE d

\* the three removals at the end of migrateToV6
RemoveDeprecated(d) ==
    Remove(Remove(Remove(d, "az_count"), "create_private_subnets"), "enable_nat_gateway")

\* faulty variant: without the check before the set, use_default_vpc is
\* derived on every call from the old networking keys, which the call removes
migrateToV6FromOldKeys(data) ==
    LET d1 == Put(data, "use_default_vpc", VBool(~Has(data, "create_private_subnets")))
        d2 == IF Has(d1, "vpc_cidr") /\ GoEq(Get(d1, "vpc_cidr"), VStr(S_empty))
              THEN Put(d1, "vpc_cidr", VStr(S_cidr)) ELSE d1
    IN  RemoveDeprecated(d2)

\* faulty variant: an absent vpc_cidr is filled in as well
migrateToV6AlwaysCidr(data) ==
    LET d1 == Default(data, "use_default_vpc", VBool(TRUE))
        d2 == IF ~Has(d1, "vpc_cidr") \/ GoEq(Get(d1, "vpc_cidr"), VStr(S_empty))
              THEN Put(d1, "vpc_cidr", VStr(S_cidr)) ELSE d1
    IN  RemoveDeprecated(d2)

\* faulty variant: the default for an absent use_default_vpc is false
migrateToV6CustomVPC(data) ==
    LET d1 == Default(data, "use_default_vpc", VBool(FALSE))
        d2 == IF Has(d1, "vpc_cidr") /\ GoEq(Get(d1, "vpc_cidr"), VStr(S_empty))
              THEN Put(d1, "vpc_cidr", VStr(S_cidr)) ELSE d1
    IN  RemoveDeprecated(d2)

migrateToV6(data) ==
    LET d1 == Default(data, "use_default_vpc", VBool(TRUE))
        d2 == IF Has(d1, "vpc_cidr") /\ GoEq(Get(d1, "vpc_cidr"), VStr(S_empty))
              THEN Put(d1, "vpc_cidr", VStr(S_cidr)) ELSE d1
    IN  RemoveDeprecated(d2)

\* faulty variant: a set ecr_account_id wins over env = "dev"
migrateToV7AccountFirst(data) ==
    LET envRaw == Get(data, "env")
        env == IF envRaw.t = "str" THEN envRaw.s ELSE S_empty
        ecrAccountID == Get(data, "ecr_account_id")
        hasECRAccountID == Has(data, "ecr_account_id")
        d1 == IF Has(data, "ecr_strategy") THEN data
              ELSE IF hasECRAccountID /\ ecrAccountID # VNil
                      /\ ~GoEq(ecrAccountID, VStr(S_empty))
                   THEN Put(data, "ecr_strategy", VStr(S_cross_account))
              ELSE Put(data, "ecr_strategy", VStr(S_local))
    IN  Default(Default(d1, "ecr_account_id", VNil), "ecr_account_region", VNil)

migrateToV7(data) ==
    LET envRaw == Get(data, "env")
        env == IF envRaw.t = "str" THEN envRaw.s ELSE S_empty
        ecrAccountID == Get(data, "ecr_account_id")
        hasECRAccountID == Has(data, "ecr_account_id")
        d1 == IF Has(data, "ecr_strategy") THEN data
              ELSE IF env = S_dev THEN Put(data, "ecr_strategy", VStr(S_local))
              ELSE IF hasECRAccountID /\ ecrAccountID # VNil
                      /\ ~GoEq(ecrAccountID, VStr(S_empty))
                   THEN Put(data, "ecr_strategy", VStr(S_cross_account))
              ELSE Put(data, "ecr_strategy", VStr(S_local))
    IN  Default(Default(d1, "ecr_account_id", VNil), "ecr_account_region", VNil)

migrateToV8(data) == Default(data, "ecr_trusted_accounts", VList(<<>>))

\* faulty variant: every map element gets the default ecr_config
addDefaultECRConfigAlways(items) ==
    [i \in 1..Len(items) |->
        IF items[i].t = "map"
        THEN [items[i] EXCEPT !.m = Upd(items[i].m, "ecr_config",
                                        VSMap([mode |-> VStr(S_create_ecr)]))]
        ELSE items[i]]

\* addDefaultECRConfig, the closure inside migrateV8ToV9
addDefaultECRConfig(items) ==
    [i \in 1..Len(items) |->
        IF items[i].t = "map" /\ "ecr_config" \notin DOMAIN items[i].m
        THEN [items[i] EXCEPT !.m = Upd(items[i].m, "ecr_config",
                                        VSMap([mode |-> VStr(S_create_ecr)]))]
        ELSE items[i]]

\* if raw, exists := data[k]; exists { if items, ok := raw.([]interface{}); ok { ... } }
AddECRConfigTo(d, k) ==
    IF Has(d, k) /\ Get(d, k).t = "list"
    THEN [d EXCEPT !.m[k].l = addDefaultECRConfig(d.m[k].l)]
    ELSE d

\* registered as the step to version 10
migrateV8ToV9(data) ==
    AddECRConfigTo(AddECRConfigTo(AddECRConfigTo(data, "services"),
                                  "event_processor_tasks"), "scheduled_tasks")

\* s[len(s)-len(suf):] == suf
EndsWith(s, suf) ==
    Len(s) >= Len(suf) /\ SubSeq(s, Len(s) - Len(suf) + 1, Len(s)) = suf

\* the prefix extraction of migrateToV9 (the block under "Parse custom_domain")
ExtractPrefix(customDomain, domainName, env, addEnvPrefix) ==
    LET p1 == IF Len(customDomain) > Len(domainName) /\ EndsWith(customDomain, domainName)
              THEN SubSeq(customDomain, 1, Len(customDomain) - Len(domainName) - 1)
              ELSE customDomain
        envPrefix == env \o S_dot
    IN  IF addEnvPrefix /\ env # S_empty /\ env # S_prod
           /\ Len(p1) > Len(envPrefix) /\ EndsWith(p1, envPrefix)
        THEN SubSeq(p1, 1, Len(p1) - Len(envPrefix) - 1)
        ELSE p1

\* the body of migrateToV9's loop, for one element of amplify_apps
MigrateAmplifyApp(app, domainName, env, addEnvPrefix) ==
    IF app.t # "map" THEN app
    ELSE
    LET hasCustomDomain == "custom_domain" \in DOMAIN app.m /\ app.m["custom_domain"].t = "str"
        customDomain == IF hasCustomDomain THEN app.m["custom_domain"].s ELSE S_empty
        hasEnableRoot == "enable_root_domain" \in DOMAIN app.m
        m1 == IF hasEnableRoot THEN Without(app.m, "enable_root_domain") ELSE app.m
        prefix == ExtractPrefix(customDomain, domainName, env, addEnvPrefix)
        m2 == IF prefix # S_empty THEN Upd(m1, "subdomain_prefix", VStr(prefix)) ELSE m1
    IN  IF ~hasCustomDomain /\ ~hasEnableRoot THEN app
        ELSE IF customDomain # S_empty /\ domainName # S_empty
             THEN [app EXCEPT !.m = Without(m2, "custom_domain")]
        ELSE [app EXCEPT !.m = m1]

migrateToV9(data) ==
    IF ~Has(data, "amplify_apps") \/ Get(data, "amplify_apps") = VNil THEN data
    ELSE IF Get(data, "amplify_apps").t # "list" THEN data
    ELSE
    LET dn == SubGet(data, "domain", "domain_name")
        aep == SubGet(data, "domain", "add_env_domain_prefix")
        domainName == IF IsYMap(data, "domain") /\ dn.t = "str" THEN dn.s ELSE S_empty
        addEnvPrefix == IsYMap(data, "domain") /\ aep.t = "bool" /\ aep.n = 1
        envRaw == Get(data, "env")
        env == IF envRaw.t = "str" THEN envRaw.s ELSE S_empty
        apps == data.m["amplify_apps"].l
    IN  [data EXCEPT !.m["amplify_apps"].l =
            [i \in 1..Len(apps) |-> MigrateAmplifyApp(apps[i], domainName, env, addEnvPrefix)]]

\* faulty variant: only a missing host_port is filled in
FixHostPortMissingOnly(svc) ==
    IF svc.t = "map" /\ "container_port" \in DOMAIN svc.m /\ "host_port" \notin DOMAIN svc.m
    THEN [svc EXCEPT !.m = Upd(svc.m, "host_port", svc.m["container_port"])]
    ELSE svc

\* the body of migrateToV11's loop, for one element of services
FixHostPort(svc) ==
    IF svc.t # "map" \/ "container_port" \notin DOMAIN svc.m THEN svc
    ELSE IF "host_port" \notin DOMAIN svc.m
            \/ ~GoEq(svc.m["host_port"], svc.m["container_port"])
         THEN [svc EXCEPT !.m = Upd(svc.m, "host_port", svc.m["container_port"])]
    ELSE svc

\* the condition under which the loop executes fixedCount++
CountedAsFixed(svc) ==
    /\ svc.t = "map"
    /\ "container_port" \in DOMAIN svc.m
    /\ \/ "host_port" \notin DOMAIN svc.m
       \/ ~GoEq(svc.m["host_port"], svc.m["container_port"])

\* hostPort != containerPort panics on two values of one uncomparable type
HostPortPanics(svc) ==
    /\ svc.t = "map"
    /\ "container_port" \in DOMAIN svc.m
    /\ "host_port" \in DOMAIN svc.m
    /\ GoEqPanics(svc.m["host_port"], svc.m["container_port"])

\* fixedCount, the number migrateToV11 reports
FixedCount(services) ==
    Cardinality({i \in 1..Len(services) : CountedAsFixed(services[i])})

migrateToV11(data) ==
    IF ~Has(data, "services") \/ Get(data, "services") = VNil THEN data
    ELSE IF Get(data, "services").t # "list" THEN data
    ELSE
    LET services == data.m["services"].l IN
    IF \E i \in 1..Len(services) : HostPortPanics(services[i]) THEN Panicked
    ELSE [data EXCEPT !.m["services"].l =
            [i \in 1..Len(services) |-> FixHostPort(services[i])]]

\* faulty variant: storage_encrypted is forced to its default
migrateToV12Overwrites(data) ==
    IF ~Has(data, "postgres") \/ Get(data, "postgres") = VNil THEN data
    ELSE IF ~IsYMap(data, "postgres") THEN data
    ELSE
    LET d1 == SubDefault(data, "postgres", "multi_az", VBool(FALSE))
        d2 == SubPut(d1, "postgres", "storage_encrypted", VBool(TRUE))
        d3 == SubDefault(d2, "postgres", "deletion_protection", VBool(FALSE))
        d4 == SubDefault(d3, "postgres", "skip_final_snapshot", VBool(TRUE))
    IN  SubDefault(d4, "postgres", "iam_database_authentication_enabled", VBool(FALSE))

migrateToV12(data) ==
    IF ~Has(data, "postgres") \/ Get(data, "postgres") = VNil THEN data
    ELSE IF ~IsYMap(data, "postgres") THEN data
    ELSE
    LET d1 == SubDefault(data, "postgres", "multi_az", VBool(FALSE))
        d2 == SubDefault(d1, "postgres", "storage_encrypted", VBool(TRUE))
        d3 == SubDefault(d2, "postgres", "deletion_protection", VBool(FALSE))
        d4 == SubDefault(d3, "postgres", "skip_final_snapshot", VBool(TRUE))
    IN  SubDefault(d4, "postgres", "iam_database_authentication_enabled", VBool(FALSE))

(***************************************************************************)
(* The registry.  Apply names the step function of an entry.               *)
(***************************************************************************)
\* faulty variant: the ECR step carries the version its name suggests, so
\* version 9 is registered twice and version 10 never
AllMigrationsByName ==
    << [Version |-> 2,  Apply |-> "migrateToV2"],
       [Version |-> 3,  Apply |-> "migrateToV3"],
       [Version |-> 4,  Apply |-> "migrateToV4"],
       [Version |-> 5,  Apply |-> "migrateToV5"],
       [Version |-> 6,  Apply |-> "migrateToV6"],
       [Version |-> 7,  Apply |-> "migrateToV7"],
       [Version |-> 8,  Apply |-> "migrateToV8"],
       [Version |-> 9,  Apply |-> "migrateToV9"],
       [Version |-> 9,  Apply |-> "migrateV8ToV9"],
       [Version |-> 11, Apply |-> "migrateToV11"],
       [Version |-> 12, Apply |-> "migrateToV12"] >>

AllMigrations ==
    << [Version |-> 2,  Apply |-> "migrateToV2"],
       [Version |-> 3,  Apply |-> "migrateToV3"],
       [Version |-> 4,  Apply |-> "migrateToV4"],
       [Version |-> 5,  Apply |-> "migrateToV5"],
       [Version |-> 6,  Apply |-> "migrateToV6"],
       [Version |-> 7,  Apply |-> "migrateToV7"],
       [Version |-> 8,  Apply |-> "migrateToV8"],
       [Version |-> 9,  Apply |-> "migrateToV9"],
       [Version |-> 10, Apply |-> "migrateV8ToV9"],
       [Version |-> 11, Apply |-> "migrateToV11"],
       [Version |-> 12, Apply |-> "migrateToV12"] >>

\* A registry whose entry i carries an Apply that returns an error without
\* touching the document (Migration.Apply is any func(map) error, and
\* AllMigrations is an assignable package variable).
WithFailingStep(i) == [AllMigrations EXCEPT ![i].Apply = "failing"]

\* migration.Apply(data): the mutated document and whether err != nil
Apply(name, data) ==
    CASE name = "migrateToV2"   -> [doc |-> migrateToV2(data), err |-> FALSE]
      [] name = "migrateToV3"   -> [doc |-> migrateToV3(data), err |-> FALSE]
      [] name = "migrateToV4"   -> [doc |-> migrateToV4(data), err |-> FALSE]
      [] name = "migrateToV5"   -> [doc |-> migrateToV5(data), err |-> FALSE]
      [] name = "migrateToV6"   -> [doc |-> migrateToV6(data), err |-> FALSE]
      [] name = "migrateToV7"   -> [doc |-> migrateToV7(data), err |-> FALSE]
      [] name = "migrateToV8"   -> [doc |-> migrateToV8(data), err |-> FALSE]
      [] name = "migrateToV9"   -> [doc |-> migrateToV9(data), err |-> FALSE]
      [] name = "migrateV8ToV9" -> [doc |-> migrateV8ToV9(data), err |-> FALSE]
      [] name = "migrateToV11"  -> [doc |-> migrateToV11(data), err |-> FALSE]
      [] name = "migrateToV12"  -> [doc |-> migrateToV12(data), err |-> FALSE]
      [] OTHER                  -> [doc |-> data, err |-> TRUE]

(***************************************************************************)
(* YAML conversion.  File bytes are modelled by what yaml.Unmarshal makes  *)
(* of them: kind "garbage" for bytes that are no YAML mapping, and for     *)
(* kind "yaml" doc is the decoded map[string]interface{} (nil for an empty *)
(* document).  Missing stands for a path that cannot be read.              *)
(***************************************************************************)
Missing == [kind |-> "missing", doc |-> VNil]

Garbage == [kind |-> "garbage", doc |-> VNil]

Yaml(d) == [kind |-> "yaml", doc |-> d]

\* What a value is after yaml.Marshal and yaml.Unmarshal: every nested map
\* comes back as map[interface{}]interface{} and a float without fraction
\* is written without a decimal point and read back as an int.
RECURSIVE Reparse(_)
Reparse(v) ==
    CASE v.t \in {"map", "smap"} -> VMap([k \in DOMAIN v.m |-> Reparse(v.m[k])])
      [] v.t = "list" -> VList([i \in 1..Len(v.l) |-> Reparse(v.l[i])])
      [] v.t = "float" /\ v.n % 10 = 0 -> VInt(v.n \div 10)
      [] OTHER -> v

\* yaml.Marshal(dataMap), as the bytes' decoded form
Marshal(dataMap) ==
    Yaml(VSMap([k \in DOMAIN dataMap.m |-> Reparse(dataMap.m[k])]))

(***************************************************************************)
(* The typed Env, restricted to the fields the properties read.            *)
(***************************************************************************)
ZeroEnv == [SchemaVersion |-> 0, Aurora |-> FALSE, UseDefaultVPC |-> FALSE,
            ECRStrategy |-> S_empty]

\* yaml.Unmarshal(data, &e): the fields decoded from the document
DecodeEnv(d) ==
    [SchemaVersion |-> IF Get(d, "schema_version").t = "int"
                       THEN Get(d, "schema_version").n ELSE 0,
     Aurora        |-> IsYMap(d, "postgres") /\ SubGet(d, "postgres", "aurora") = VBool(TRUE),
     UseDefaultVPC |-> Get(d, "use_default_vpc") = VBool(TRUE),
     ECRStrategy   |-> IF Get(d, "ecr_strategy").t = "str"
                       THEN Get(d, "ecr_strategy").s ELSE S_empty]

\* yaml.Unmarshal(data, &e) reports a type error: a value that does not fit
\* the type of its struct field
DecodeFails(d) ==
    \/ Get(d, "schema_version").t \notin {"int", "nil"}
    \/ Get(d, "use_default_vpc").t \notin {"bool", "nil"}
    \/ Get(d, "ecr_strategy").t \in {"map", "list"}
    \/ \E k \in {"postgres", "workload", "domain"} : Get(d, k).t \notin {"map", "nil"}
    \/ IsYMap(d, "postgres") /\ SubGet(d, "postgres", "aurora").t \notin {"bool", "nil"}

(***************************************************************************)
(* Template helpers (raymond.go).  A value of a Go array type and a value  *)
(* of a kind the helpers do not single out (a struct, a pointer) join the  *)
(* YAML values.                                                            *)
(***************************************************************************)
VArray(q) == [VNil EXCEPT !.t = "array", !.l = q]

VOther == [VNil EXCEPT !.t = "other"]

S_hello == <<"h", "e", "l", "l", "o">>

\* v.Len() of a slice, an array or a map
LenOf(value) ==
    IF value.t \in {"map", "smap"} THEN Cardinality(DOMAIN value.m) ELSE Len(value.l)

\* isTruthy(value): the switch over reflect kinds
isTruthy(value) ==
    IF value.t = "nil" THEN FALSE
    ELSE CASE value.t = "bool" -> value.n = 1
           [] value.t = "str" -> value.s # S_empty
           [] value.t = "int" -> value.n # 0
           [] value.t = "float" -> value.n # 0
           [] value.t \in {"list", "map", "smap", "array"} -> LenOf(value) > 0
           [] OTHER -> TRUE

\* faulty variant: presence is tested by truthiness
existsTruthy(value) == isTruthy(value)

\* the "exists" helper: value != nil
exists(value) == value.t # "nil"

\* the "or" helper: isTruthy(a) || isTruthy(b)
or(a, b) == isTruthy(a) \/ isTruthy(b)

\* faulty variant: every falsy value is replaced by the default
defaultFalsy(value, defaultValue) == IF isTruthy(value) THEN value ELSE defaultValue

\* the "default" helper: the default for nil, for the empty string and for
\* an empty slice or map, the value otherwise
default(value, defaultValue) ==
    IF value.t = "nil" THEN defaultValue
    ELSE IF value.t = "str" /\ value.s = S_empty THEN defaultValue
    ELSE IF value.t \in {"list", "map", "smap"} /\ LenOf(value) = 0 THEN defaultValue
    ELSE value

(***************************************************************************)
(* State.                                                                  *)
(***************************************************************************)
VARIABLES
    registry,   \* the package variable AllMigrations
    disk,       \* path -> content of the file at that path
    orig,       \* the disk at the start (history)
    backups,    \* the backup artifacts written so far, [path, content, at]
    writes,     \* the number of completed os.WriteFile calls
    mem,        \* a document held in memory by a direct caller of applyMigrations
    proc,       \* proc[p]: the call that process p executes
    batch,      \* the run of MigrateAllYAMLFiles
    aws,        \* the run of validateAWSCredentials
    clock       \* the wall clock, in seconds

vars == <<registry, disk, orig, backups, writes, mem, proc, batch, aws, clock>>

NumProcs == 2

Procs == 1..NumProcs

\* possiblePaths of loadEnvWithMigration, for name = "dev"
possiblePaths == <<"dev.yaml", "project/dev.yaml", "../../project/dev.yaml", "../dev.yaml">>

Paths == {possiblePaths[i] : i \in 1..Len(possiblePaths)}

IdleProc ==
    [pc |-> "idle", op |-> "none", path |-> "", data |-> Missing, dataMap |-> VNil,
     input |-> VNil, currentVersion |-> 0, idx |-> 1, invoked |-> <<>>,
     err |-> "none", errVersion |-> 0, errPaths |-> {}, backedUp |-> FALSE,
     wrote |-> FALSE, env |-> ZeroEnv, result |-> VNil]

\* One call runs at a time (the engine is single-threaded), in process order.
Quiet(p) ==
    /\ proc[p].pc = "idle"
    /\ \A q \in Procs : q < p => proc[q].pc = "done"

Return(p, e) == [proc[p] EXCEPT !.pc = "done", !.err = e]

\* faulty variant: the loop does not stop at the first readable candidate
LastReadable ==
    LET ok == {i \in 1..Len(possiblePaths) : disk[possiblePaths[i]].kind # "missing"}
    IN  IF ok = {} THEN 0 ELSE CHOOSE i \in ok : \A j \in ok : i >= j

\* The first readable candidate, 0 when there is none (the loop over possiblePaths)
FirstReadable ==
    LET ok == {i \in 1..Len(possiblePaths) : disk[possiblePaths[i]].kind # "missing"}
    IN  IF ok = {} THEN 0 ELSE CHOOSE i \in ok : \A j \in ok : i <= j

\* lastErr when no candidate was readable: the error of the last os.ReadFile,
\* an *os.PathError whose text carries the one path it was called with
LastErrPaths == {possiblePaths[Len(possiblePaths)]}

\* faulty variant: a file at the current version is migrated again
NeedsMigrationInclusive(currentVersion) == currentVersion <= CurrentSchemaVersion

\* if currentVersion < CurrentSchemaVersion { backup, migrate, save }
NeedsMigration(currentVersion) == currentVersion < CurrentSchemaVersion

\* faulty variant: the error of yaml.Unmarshal is dropped and the run goes on
\* with the nil map
AfterReadLenient(p, o, path) ==
    LET data == disk[path]
        cv == detectSchemaVersion(data.doc)
        st == [IdleProc EXCEPT !.op = o, !.path = path, !.data = data]
    IN  IF NeedsMigration(cv)
        THEN [st EXCEPT !.pc = "backup", !.dataMap = data.doc, !.input = data.doc,
                        !.currentVersion = cv]
        ELSE [st EXCEPT !.pc = IF o = "load" THEN "decode" ELSE "done",
                        !.dataMap = data.doc, !.input = data.doc,
                        !.currentVersion = cv]

\* The common head of loadEnvWithMigration and MigrateYAMLFile once the bytes
\* are read: unmarshal to a map, detect the version, branch on it.
AfterRead(p, o, path) ==
    LET data == disk[path]
        cv == detectSchemaVersion(data.doc)
        st == [IdleProc EXCEPT !.op = o, !.path = path, !.data = data]
    IN  IF data.kind = "garbage" THEN [st EXCEPT !.pc = "done", !.err = "parse"]
        ELSE IF NeedsMigration(cv)
             THEN [st EXCEPT !.pc = "backup", !.dataMap = data.doc, !.input = data.doc,
                             !.currentVersion = cv]
        ELSE [st EXCEPT !.pc = IF o = "load" THEN "decode" ELSE "done",
                        !.dataMap = data.doc, !.input = data.doc,
                        !.currentVersion = cv]

\* loadEnvWithMigration(name), up to the version check: the state of the call
LoadCall(p) ==
    IF FirstReadable = 0
    THEN [IdleProc EXCEPT !.op = "load", !.pc = "done", !.err = "read",
                          !.errPaths = LastErrPaths]
    ELSE AfterRead(p, "load", possiblePaths[FirstReadable])

\* loadEnvWithMigration(name) called while no other call runs
StartLoad(p) ==
    /\ Quiet(p)
    /\ proc' = [proc EXCEPT ![p] = LoadCall(p)]
    /\ UNCHANGED <<registry, disk, orig, backups, writes, mem, batch, aws, clock>>

\* MigrateYAMLFile(filepath), up to the version check: the state of the call
MigrateCall(p, filepath) ==
    IF disk[filepath].kind \in {"missing", "dir"}
    THEN [IdleProc EXCEPT !.op = "migrate", !.path = filepath,
                          !.pc = "done", !.err = "read",
                          !.errPaths = {filepath}]
    ELSE AfterRead(p, "migrate", filepath)

\* MigrateYAMLFile(filepath) called on its own
StartMigrate(p, filepath) ==
    /\ Quiet(p)
    /\ proc' = [proc EXCEPT ![p] = MigrateCall(p, filepath)]
    /\ UNCHANGED <<registry, disk, orig, backups, writes, mem, batch, aws, clock>>

\* faulty variant: the error of backupFile is dropped
BackupFailedIgnored(p) == [proc[p] EXCEPT !.pc = "migrate"]

\* if err := backupFile(path); err != nil { return ... }
BackupFailed(p) == Return(p, "backup")

\* CreateProjectBackup(path): the artifact, a copy of the file as it is on
\* disk, under a name made of the path and the time in seconds
CreateProjectBackup(path) == [path |-> path, content |-> disk[path], at |-> clock]

\* backupFile(path): CreateProjectBackup writes the artifact, or fails.
backupFile(p) ==
    /\ proc[p].pc = "backup"
    /\ \E ok \in BOOLEAN :
         IF ok
         THEN /\ backups' = Append(backups, CreateProjectBackup(proc[p].path))
              /\ proc' = [proc EXCEPT ![p].pc = "migrate", ![p].backedUp = TRUE]
         ELSE /\ backups' = backups
              /\ proc' = [proc EXCEPT ![p] = BackupFailed(p)]
    /\ UNCHANGED <<registry, disk, orig, writes, mem, batch, aws, clock>>

\* faulty variant: the early return misses from = CurrentSchemaVersion
AlreadyCurrentStrict(currentVersion) == currentVersion > CurrentSchemaVersion

\* faulty variant: the step whose target is the detected version runs again
NeededInclusive(migration, currentVersion) == migration.Version >= currentVersion

\* faulty variant: the step's error is recorded and the file is saved anyway
StepFailedStillSaves(p, version, called) ==
    [proc[p] EXCEPT !.pc = "save", !.err = "migration", !.errVersion = version,
                    !.invoked = called]

\* faulty variant: the loop goes on after a step's error
StepFailedContinues(p, version, called) ==
    [proc[p] EXCEPT !.idx = proc[p].idx + 1, !.invoked = called]

\* faulty variant: an existing schema_version is kept
StampedIfAbsent(data) == Default(data, "schema_version", VInt(CurrentSchemaVersion))

\* if currentVersion >= CurrentSchemaVersion { return nil }
AlreadyCurrent(currentVersion) == currentVersion >= CurrentSchemaVersion

\* if migration.Version > currentVersion { ... }
Needed(migration, currentVersion) == migration.Version > currentVersion

\* return fmt.Errorf("migration to v%d failed: %w", migration.Version, err)
StepFailed(p, version, called) ==
    [Return(p, "migration") EXCEPT !.errVersion = version, !.invoked = called]

\* faulty variant: the stamp written after the loop restarts at 1
StampedFirst(data) == Put(data, "schema_version", VInt(1))

\* data["schema_version"] = CurrentSchemaVersion
Stamped(data) == Put(data, "schema_version", VInt(CurrentSchemaVersion))

\* applyMigrations(data, currentVersion) called directly on the document in
\* memory: the early return, or entry into the loop.
CallApply(p, from) ==
    /\ Quiet(p)
    /\ proc' = [proc EXCEPT ![p] =
                  [IdleProc EXCEPT !.op = "apply", !.dataMap = mem, !.input = mem,
                                   !.currentVersion = from,
                                   !.pc = IF AlreadyCurrent(from)
                                          THEN "done" ELSE "migrate"]]
    /\ UNCHANGED <<registry, disk, orig, backups, writes, mem, batch, aws, clock>>

\* the caller of applyMigrations shares the map that the steps mutate
Shared(p, d) == IF proc[p].op = "apply" THEN d ELSE mem

\* One iteration of applyMigrations' loop over the registry.
ApplyStep(p) ==
    /\ proc[p].pc = "migrate"
    /\ proc[p].idx <= Len(registry)
    /\ LET migration == registry[proc[p].idx]
           r == Apply(migration.Apply, proc[p].dataMap)
           called == Append(proc[p].invoked, migration.Version)
       IN  IF Needed(migration, proc[p].currentVersion)
           THEN IF r.err
                THEN /\ proc' = [proc EXCEPT ![p] =
                                   StepFailed(p, migration.Version, called)]
                     /\ mem' = mem
                ELSE IF r.doc.t = "panic"
                THEN /\ proc' = [proc EXCEPT ![p] =
                                   [Return(p, "panic") EXCEPT !.invoked = called]]
                     /\ mem' = mem
                ELSE /\ proc' = [proc EXCEPT ![p].dataMap = r.doc,
                                             ![p].invoked = called,
                                             ![p].idx = proc[p].idx + 1]
                     /\ mem' = Shared(p, r.doc)
           ELSE /\ proc' = [proc EXCEPT ![p].idx = proc[p].idx + 1]
                /\ mem' = mem
    /\ UNCHANGED <<registry, disk, orig, backups, writes, batch, aws, clock>>

\* data["schema_version"] = CurrentSchemaVersion, after the loop
Stamp(p) ==
    /\ proc[p].pc = "migrate"
    /\ proc[p].idx > Len(registry)
    /\ LET d == Stamped(proc[p].dataMap)
       IN  IF d.t = "panic"
           THEN /\ proc' = [proc EXCEPT ![p] = Return(p, "panic")]
                /\ mem' = mem
           ELSE /\ proc' = [proc EXCEPT ![p].dataMap = d,
                                        ![p].pc = IF proc[p].op = "apply"
                                                  THEN "done" ELSE "save"]
                /\ mem' = Shared(p, d)
    /\ UNCHANGED <<registry, disk, orig, backups, writes, batch, aws, clock>>

\* faulty variant: the bytes read before the migration are decoded
StaleData(p, migratedData) == proc[p].data

\* data = migratedData: the bytes written are the bytes decoded afterwards
ReloadedData(p, migratedData) == migratedData

\* yaml.Marshal and os.WriteFile to the path that was read.  A failing
\* write leaves the file as it was, empty (truncated on open) or cut short.
Save(p) ==
    /\ proc[p].pc = "save"
    /\ LET migratedData == Marshal(proc[p].dataMap) IN
       \/ /\ disk' = [disk EXCEPT ![proc[p].path] = migratedData]
          /\ writes' = writes + 1
          /\ proc' = [proc EXCEPT ![p].data = ReloadedData(p, migratedData),
                                  ![p].wrote = TRUE,
                                  ![p].pc = IF proc[p].op = "load"
                                            THEN "decode" ELSE "done"]
       \/ /\ \E left \in {disk[proc[p].path], Yaml(VNil), Garbage} :
                disk' = [disk EXCEPT ![proc[p].path] = left]
          /\ writes' = writes
          /\ proc' = [proc EXCEPT ![p] = Return(p, "write")]
    /\ UNCHANGED <<registry, orig, backups, mem, batch, aws, clock>>

\* the final yaml.Unmarshal(data, &e) of loadEnvWithMigration
Decode(p) ==
    /\ proc[p].pc = "decode"
    /\ proc' = [proc EXCEPT ![p] =
                  IF DecodeFails(proc[p].data.doc)
                  THEN Return(p, "decode")
                  ELSE [proc[p] EXCEPT !.pc = "done",
                                       !.env = DecodeEnv(proc[p].data.doc)]]
    /\ UNCHANGED <<registry, disk, orig, backups, writes, mem, batch, aws, clock>>

(***************************************************************************)
(* Two callers at once (two requests of the HTTP server, two commands):    *)
(* nothing in the engine locks the file, so the calls interleave at every  *)
(* file operation.                                                         *)
(***************************************************************************)
\* loadEnvWithMigration(name) called whatever the other caller is doing
LoadConcurrently(p) ==
    /\ proc[p].pc = "idle"
    /\ proc' = [proc EXCEPT ![p] = LoadCall(p)]
    /\ UNCHANGED <<registry, disk, orig, backups, writes, mem, batch, aws, clock>>

\* MigrateYAMLFile(filepath) called whatever the other caller is doing
MigrateConcurrently(p, filepath) ==
    /\ proc[p].pc = "idle"
    /\ proc' = [proc EXCEPT ![p] = MigrateCall(p, filepath)]
    /\ UNCHANGED <<registry, disk, orig, backups, writes, mem, batch, aws, clock>>

\* os.WriteFile opens the file with O_TRUNC before it writes: between the
\* two the other caller sees an empty file
Truncate(p) ==
    /\ proc[p].pc = "save"
    /\ disk[proc[p].path] # Yaml(VNil)
    /\ disk' = [disk EXCEPT ![proc[p].path] = Yaml(VNil)]
    /\ UNCHANGED <<registry, orig, backups, writes, mem, proc, batch, aws, clock>>

\* the largest value of the clock
MaxClock == 1

\* a second passes
Tick ==
    /\ clock < MaxClock
    /\ clock' = clock + 1
    /\ UNCHANGED <<registry, disk, orig, backups, writes, mem, proc, batch, aws>>

(***************************************************************************)
(* MigrateAllYAMLFiles: the batch over the *.yaml files of one directory.  *)
(***************************************************************************)
Dir == [kind |-> "dir", doc |-> VNil]

S_dot_yaml == <<".", "y", "a", "m", "l">>

S_dev_yaml == S_dev \o S_dot_yaml

S_prod_yaml == S_prod \o S_dot_yaml

S_app_yml == <<"a", "p", "p", ".", "y", "m", "l">>

S_notes_txt == <<"n", "o", "t", "e", "s", ".", "t", "x", "t">>

S_project == <<"p", "r", "o", "j", "e", "c", "t">>

\* The directory entries the batch can meet, in the lexical order in which
\* filepath.Glob returns its matches: the path, its directory, its base name.
DirEntries ==
    << [path |-> "app.yml", dir |-> ".", name |-> S_app_yml],
       [path |-> "dev.yaml", dir |-> ".", name |-> S_dev_yaml],
       [path |-> "prod.yaml", dir |-> ".", name |-> S_prod_yaml],
       [path |-> "project", dir |-> ".", name |-> S_project],
       [path |-> "project/dev.yaml", dir |-> "project", name |-> S_dev_yaml],
       [path |-> "project/notes.txt", dir |-> "project", name |-> S_notes_txt],
       [path |-> "project/prod.yaml", dir |-> "project", name |-> S_prod_yaml] >>

BatchPaths == {DirEntries[i].path : i \in 1..Len(DirEntries)}

\* the pattern "*.yaml" of filepath.Join(projectDir, "*.yaml") on a base name
MatchYaml(name) == EndsWith(name, S_dot_yaml)

\* filepath.Glob(filepath.Join(projectDir, "*.yaml")) on the files of d
Glob(d, projectDir) ==
    LET hit(e) == /\ e.dir = projectDir
                  /\ d[e.path].kind # "missing"
                  /\ MatchYaml(e.name)
        es == SelectSeq(DirEntries, hit)
    IN  [i \in 1..Len(es) |-> es[i].path]

\* projectDir := "project"; if os.Stat says it does not exist, "."
ProjectDir(d) == IF d["project"].kind = "missing" THEN "." ELSE "project"

IdleBatch == [pc |-> "idle", projectDir |-> "", files |-> <<>>, idx |-> 1,
              attempted |-> <<>>, ret |-> "none"]

\* MigrateAllYAMLFiles up to its loop: the directory, the glob, the early
\* return when nothing matches.
StartBatch ==
    /\ batch.pc = "idle"
    /\ \A p \in Procs : proc[p].pc = "idle"
    /\ LET projectDir == ProjectDir(disk)
           files == Glob(disk, projectDir)
       IN  batch' = IF Len(files) = 0
                    THEN [batch EXCEPT !.pc = "done", !.projectDir = projectDir,
                                       !.ret = "nil"]
                    ELSE [batch EXCEPT !.pc = "loop", !.projectDir = projectDir,
                                       !.files = files]
    /\ UNCHANGED <<registry, disk, orig, backups, writes, mem, proc, aws, clock>>

\* for _, file := range files { err := MigrateYAMLFile(file) ...
BatchCall(p) ==
    /\ batch.pc = "loop"
    /\ batch.idx <= Len(batch.files)
    /\ proc[p].pc = "idle"
    /\ proc' = [proc EXCEPT ![p] = MigrateCall(p, batch.files[batch.idx])]
    /\ batch' = [batch EXCEPT !.pc = "call"]
    /\ UNCHANGED <<registry, disk, orig, backups, writes, mem, aws, clock>>

\* ... if err != nil { print it } }, and return nil after the last file.  A
\* panic inside MigrateYAMLFile is not recovered: it unwinds the batch.
BatchReturn(p) ==
    /\ batch.pc = "call"
    /\ proc[p].pc = "done"
    /\ LET seen == Append(batch.attempted,
                          [file |-> proc[p].path, err |-> proc[p].err])
           last == batch.idx = Len(batch.files)
       IN  IF proc[p].err = "panic"
           THEN /\ batch' = [batch EXCEPT !.pc = "crashed", !.attempted = seen]
                /\ proc' = proc
           ELSE /\ batch' = [batch EXCEPT !.pc = IF last THEN "done" ELSE "loop",
                                          !.attempted = seen,
                                          !.idx = batch.idx + 1,
                                          !.ret = IF last THEN "nil" ELSE "none"]
                /\ proc' = [proc EXCEPT ![p] = IdleProc]
    /\ UNCHANGED <<registry, disk, orig, backups, writes, mem, aws, clock>>

(***************************************************************************)
(* validateAWSCredentials (aws_preflight.go): the STS identity call with   *)
(* one retry after an SSO token refresh.  An error is its message.         *)
(***************************************************************************)
S_SSO == <<"S", "S", "O">>

S_expired == <<"e", "x", "p", "i", "r", "e", "d">>

\* strings.Contains(s, sub)
Contains(s, sub) ==
    \E i \in 0..(Len(s) - Len(sub)) : SubSeq(s, i + 1, i + Len(sub)) = sub

\* strings.Contains(err.Error(), "SSO") || strings.Contains(err.Error(), "expired")
MentionsSSO(msg) == Contains(msg, S_SSO) \/ Contains(msg, S_expired)

\* messages of a failing GetCallerIdentity; the matching is case-sensitive
StsErrors ==
    {<<"S", "S", "O", " ", "t", "o", "k", "e", "n">>,
     <<"h", "a", "s", " ", "e", "x", "p", "i", "r", "e", "d">>,
     <<"s", "s", "o", " ", "E", "x", "p", "i", "r", "e", "d">>,
     <<"d", "e", "n", "i", "e", "d">>,
     <<"t", "i", "m", "e", "o", "u", "t">>}

IdleAws == [pc |-> "idle", profile |-> S_empty, isRetry |-> FALSE,
            calls |-> <<>>, ret |-> "none"]

AwsDone(r) == [aws EXCEPT !.pc = "done", !.ret = r]

Called(name, outcome) == Append(aws.calls, [call |-> name, out |-> outcome])

AwsFrame == UNCHANGED <<registry, disk, orig, backups, writes, mem, proc, batch, clock>>

\* validateAWSCredentials(region): validateAWSCredentialsWithRetry(region, false)
validateAWSCredentials ==
    /\ aws.pc = "idle"
    /\ aws' = [aws EXCEPT !.pc = "config", !.isRetry = FALSE,
                          !.calls = Called("validate", <<>>)]
    /\ AwsFrame

\* config.LoadDefaultConfig: it fails and the call returns, or the client is made
LoadDefaultConfig ==
    /\ aws.pc = "config"
    /\ \E ok \in BOOLEAN :
          aws' = IF ok THEN [aws EXCEPT !.pc = "sts"]
                 ELSE AwsDone("failed to load AWS configuration")
    /\ AwsFrame

\* if !isRetry && (the error mentions SSO or expired)
ShouldRefresh(isRetry, msg) == ~isRetry /\ MentionsSSO(msg)

\* stsClient.GetCallerIdentity and the branch on its error
GetCallerIdentity ==
    /\ aws.pc = "sts"
    /\ \E msg \in StsErrors \cup {S_empty} :
          aws' = IF msg = S_empty
                 THEN [AwsDone("nil") EXCEPT !.calls = Called("sts", msg)]
                 ELSE IF ShouldRefresh(aws.isRetry, msg)
                 THEN [aws EXCEPT !.pc = "refresh", !.calls = Called("sts", msg)]
                 ELSE [AwsDone("failed to validate credentials") EXCEPT
                          !.calls = Called("sts", msg)]
    /\ AwsFrame

\* the arguments of the aws command that refreshSSOToken runs
LoginArgs(profile) ==
    IF profile # S_empty THEN <<"sso", "login", "--profile", profile>>
    ELSE <<"sso", "login">>

\* faulty variant: the error of refreshSSOToken is dropped and the
\* validation is retried
AfterRefreshLenient(ok) ==
    [aws EXCEPT !.pc = "config", !.isRetry = TRUE]

\* if err := refreshSSOToken(awsProfile); err != nil { return ... };
\* return validateAWSCredentialsWithRetry(region, true)
AfterRefresh(ok) ==
    IF ok THEN [aws EXCEPT !.pc = "config", !.isRetry = TRUE]
    ELSE AwsDone("SSO token refresh failed")

\* refreshSSOToken(os.Getenv("AWS_PROFILE")) and what follows it
refreshSSOToken ==
    /\ aws.pc = "refresh"
    /\ \E ok \in BOOLEAN :
          aws' = [AfterRefresh(ok) EXCEPT
                    !.calls = IF AfterRefresh(ok).pc = "config"
                              THEN Append(Called("refresh", <<LoginArgs(aws.profile), ok>>),
                                          [call |-> "validate", out |-> <<>>])
                              ELSE Called("refresh", <<LoginArgs(aws.profile), ok>>)]
    /\ AwsFrame

(***************************************************************************)
(* Documents the runs start from.                                          *)
(***************************************************************************)
Merge(f, g) == [k \in (DOMAIN f) \cup (DOMAIN g) |-> IF k \in DOMAIN g THEN g[k] ELSE f[k]]

\* the largest integer stamp tried (one above CurrentSchemaVersion)
MaxStamp == 13

DeprecatedKeys == {"az_count", "create_private_subnets", "enable_nat_gateway"}

DeprecatedValue(k) ==
    CASE k = "az_count" -> VInt(3)
      [] k = "create_private_subnets" -> VBool(TRUE)
      [] OTHER -> VBool(FALSE)

\* any subset of the deprecated networking keys
DeprOpts == {[k \in S |-> DeprecatedValue(k)] : S \in SUBSET DeprecatedKeys}

\* schema_version absent, an integer 0..MaxStamp, or a string
StampOpts ==
    {NoMap, [schema_version |-> VStr(<<"6">>)]}
        \cup {[schema_version |-> VInt(v)] : v \in 0..MaxStamp}

VpcOpts == {NoMap, [use_default_vpc |-> VBool(TRUE)], [use_default_vpc |-> VBool(FALSE)]}

BaseDoc == [project |-> VStr(<<"x">>), env |-> VStr(S_dev)]

\* stamped (or not) documents with leftovers of the old networking keys
StampedDocs ==
    {VSMap(Merge(Merge(Merge(BaseDoc, st), dp), vp)) :
        st \in StampOpts, dp \in DeprOpts, vp \in VpcOpts}

\* a sub-map key: absent, null, not a map, a map without / with the marker
SubOpts(key, marker, other) ==
    {NoMap,
     [k \in {key} |-> VNil],
     [k \in {key} |-> VStr(<<"x">>)],
     [k \in {key} |-> VMap([f \in {other} |-> VStr(<<"v">>)])],
     [k \in {key} |-> VMap([f \in {marker, other} |->
                              IF f = marker THEN VNil ELSE VStr(<<"v">>)])]}

\* documents without a stamp that differ in the structural markers
SniffDocs ==
    {VSMap(Merge(Merge(Merge(Merge(BaseDoc, ac), wl), dm), pg)) :
        ac \in {NoMap, [account_id |-> VStr(<<"1">>)]},
        wl \in SubOpts("workload", "backend_desired_count", "backend_cpu"),
        dm \in SubOpts("domain", "zone_id", "domain_name"),
        pg \in SubOpts("postgres", "aurora", "dbname")}

\* version-1 files as first written by hand: a project, an environment of
\* any name, a database block, and none of the later fields
FirstFiles ==
    {VSMap(Merge(Merge([project |-> VStr(<<"x">>)], e), pg)) :
        e \in {NoMap} \cup {[env |-> VStr(n)] : n \in {<<"d", "e", "v">>,
                                                       <<"p", "r", "o", "d">>}},
        pg \in {NoMap, [postgres |-> VMap([dbname |-> VStr(<<"v">>)])]}}

\* file contents: a YAML mapping, an empty YAML document, bytes that do not parse
FileContents ==
    {Yaml(d) : d \in StampedDocs \cup SniffDocs \cup FirstFiles} \cup {Yaml(VNil), Garbage}

\* the configuration file lives in project/, the other candidates do not exist
DiskWith(c) == [path \in Paths |-> IF path = "project/dev.yaml" THEN c ELSE Missing]

InitWith(reg, contents, docs) ==
    /\ registry = reg
    /\ disk \in {DiskWith(c) : c \in contents}
    /\ orig = disk
    /\ backups = <<>>
    /\ writes = 0
    /\ mem \in docs
    /\ proc = [p \in Procs |-> IdleProc]
    /\ batch = IdleBatch
    /\ aws = IdleAws
    /\ clock = 0

(***************************************************************************)
(* Spec: loads and migrations of the file, one after the other, with the   *)
(* shipped registry.                                                       *)
(***************************************************************************)
Init == InitWith(AllMigrations, FileContents, {VNil})

Next ==
    \E p \in Procs :
        \/ StartLoad(p)
        \/ \E filepath \in {"project/dev.yaml", "dev.yaml"} : StartMigrate(p, filepath)
        \/ backupFile(p)
        \/ ApplyStep(p)
        \/ Stamp(p)
        \/ Save(p)
        \/ Decode(p)

Spec == Init /\ [][Next]_vars

(***************************************************************************)
(* SpecFault: the same operations with a registry in which one entry's     *)
(* Apply returns an error.                                                 *)
(***************************************************************************)
FaultContents ==
    {Yaml(VSMap(Merge(Merge(BaseDoc, st), dp))) :
        st \in StampOpts, dp \in {NoMap, [az_count |-> VInt(3)]}}

InitFault ==
    \E i \in 1..Len(AllMigrations) : InitWith(WithFailingStep(i), FaultContents, {VNil})

SpecFault == InitFault /\ [][Next]_vars

(***************************************************************************)
(* SpecPaths: the same operations with files at any of the candidate       *)
(* paths of the loader.                                                    *)
(***************************************************************************)
\* what the file at candidate i may be: nothing, bytes that do not parse, an
\* out-of-date document or a current one (each names its own place)
PathContents(i) ==
    {Missing, Garbage,
     Yaml(VSMap([project |-> VStr(<<"x">>), env |-> VStr(S_dev), place |-> VInt(i),
                 schema_version |-> VInt(CurrentSchemaVersion - 2)])),
     Yaml(VSMap([project |-> VStr(<<"x">>), env |-> VStr(S_dev), place |-> VInt(i),
                 schema_version |-> VInt(CurrentSchemaVersion)]))}

PathDisks ==
    {[path \in Paths |-> c[CHOOSE i \in 1..Len(possiblePaths) : possiblePaths[i] = path]] :
        c \in {f \in [1..Len(possiblePaths) -> UNION {PathContents(i) : i \in 1..Len(possiblePaths)}] :
                  \A i \in 1..Len(possiblePaths) : f[i] \in PathContents(i)}}

InitPaths ==
    /\ registry = AllMigrations
    /\ disk \in PathDisks
    /\ orig = disk
    /\ backups = <<>>
    /\ writes = 0
    /\ mem = VNil
    /\ proc = [p \in Procs |-> IdleProc]
    /\ batch = IdleBatch
    /\ aws = IdleAws
    /\ clock = 0

SpecPaths == InitPaths /\ [][Next]_vars

(***************************************************************************)
(* The batch: MigrateAllYAMLFiles over a directory of files at different   *)
(* versions, some of them unreadable, unparsable or empty.                 *)
(***************************************************************************)
BatchDoc(v) ==
    VSMap([project |-> VStr(<<"x">>), env |-> VStr(S_dev), schema_version |-> VInt(v)])

\* what a *.yaml entry can be: absent, a directory of that name, bytes that
\* do not parse, an empty document, a file two versions behind, a current file
YamlEntries ==
    {Missing, Dir, Garbage, Yaml(VNil),
     Yaml(BatchDoc(CurrentSchemaVersion - 2)), Yaml(BatchDoc(CurrentSchemaVersion))}

OtherEntries == {Missing, Garbage}

\* the project directory exists (with any files), is absent (and the files
\* of the working directory vary), or is a plain file of that name
BatchDisks ==
    {d \in [BatchPaths -> YamlEntries] :
        /\ d["app.yml"] \in OtherEntries
        /\ d["project/notes.txt"] \in OtherEntries
        /\ \/ /\ d["project"] = Dir
              /\ d["prod.yaml"] = Missing
              /\ d["app.yml"] = Missing
              /\ d["dev.yaml"] \in {Missing, Yaml(BatchDoc(CurrentSchemaVersion - 2))}
           \/ /\ d["project"] \in {Missing, Garbage}
              /\ \A i \in 1..Len(DirEntries) :
                    DirEntries[i].dir = "project" => d[DirEntries[i].path] = Missing
              /\ d["project"] = Garbage =>
                    d["prod.yaml"] = Missing /\ d["app.yml"] = Missing
                        /\ d["dev.yaml"] \in {Missing, Yaml(BatchDoc(CurrentSchemaVersion - 2))}}

InitBatch ==
    /\ registry = AllMigrations
    /\ disk \in BatchDisks
    /\ orig = disk
    /\ backups = <<>>
    /\ writes = 0
    /\ mem = VNil
    /\ proc = [p \in Procs |-> IdleProc]
    /\ batch = IdleBatch
    /\ aws = IdleAws
    /\ clock = 0

NextBatch ==
    \/ StartBatch
    \/ BatchCall(1)
    \/ BatchReturn(1)
    \/ backupFile(1)
    \/ ApplyStep(1)
    \/ Stamp(1)
    \/ Save(1)

SpecBatch == InitBatch /\ [][NextBatch]_vars

(***************************************************************************)
(* SpecRace: two calls on the same file, interleaved.                      *)
(***************************************************************************)
RaceContents ==
    {Yaml(BatchDoc(CurrentSchemaVersion - 2)), Yaml(BatchDoc(CurrentSchemaVersion - 1)),
     Yaml(BatchDoc(CurrentSchemaVersion))}

InitRace == InitWith(AllMigrations, RaceContents, {VNil})

NextRace ==
    \/ Tick
    \/ \E p \in Procs :
          \/ LoadConcurrently(p)
          \/ MigrateConcurrently(p, "project/dev.yaml")
          \/ backupFile(p)
          \/ ApplyStep(p)
          \/ Stamp(p)
          \/ Truncate(p)
          \/ Save(p)
          \/ Decode(p)

SpecRace == InitRace /\ [][NextRace]_vars

(***************************************************************************)
(* Credential validation under any AWS_PROFILE and any run of failures.    *)
(***************************************************************************)
Profiles == {S_empty, S_dev, S_prod, S_local}

InitCreds ==
    /\ registry = AllMigrations
    /\ disk = DiskWith(Missing)
    /\ orig = disk
    /\ backups = <<>>
    /\ writes = 0
    /\ mem = VNil
    /\ proc = [p \in Procs |-> IdleProc]
    /\ batch = IdleBatch
    /\ aws \in {[IdleAws EXCEPT !.profile = pr] : pr \in Profiles}
    /\ clock = 0

NextCreds ==
    \/ validateAWSCredentials
    \/ LoadDefaultConfig
    \/ GetCallerIdentity
    \/ refreshSSOToken

SpecCreds == InitCreds /\ [][NextCreds]_vars

(***************************************************************************)
(* SpecApply: one direct call applyMigrations(mem, from), for any from.    *)
(***************************************************************************)
ApplyDocs ==
    StampedDocs \cup {VNil}
        \cup {d \in SniffDocs : ~Has(d, "workload")}

InitApply == InitWith(AllMigrations, {Missing}, ApplyDocs)

NextApply ==
    \/ \E from \in 0..MaxStamp : CallApply(1, from)
    \/ ApplyStep(1)
    \/ Stamp(1)

SpecApply == InitApply /\ [][NextApply]_vars

(***************************************************************************)
(* SpecStep: one direct call of a single step function on a document, as   *)
(* a unit test of the step makes it.                                       *)
(***************************************************************************)
\* registry[i].Apply(mem): the step mutates the caller's document in place
CallStep(p, i) ==
    /\ Quiet(p)
    /\ LET r == Apply(registry[i].Apply, mem)
           st == [IdleProc EXCEPT !.op = "step", !.input = mem, !.pc = "done",
                                  !.invoked = <<registry[i].Version>>]
       IN  IF r.doc.t = "panic"
           THEN /\ proc' = [proc EXCEPT ![p] = [st EXCEPT !.err = "panic"]]
                /\ mem' = mem
           ELSE /\ proc' = [proc EXCEPT ![p] = [st EXCEPT !.dataMap = r.doc]]
                /\ mem' = r.doc
    /\ UNCHANGED <<registry, disk, orig, backups, writes, batch, aws, clock>>

S_staging == <<"s", "t", "a", "g", "i", "n", "g">>

S_example_com == <<"e", "x", "a", "m", "p", "l", "e", ".", "c", "o", "m">>

S_app_dev_example_com == <<"a", "p", "p", ".", "d", "e", "v", ".", "e", "x", "a", "m", "p", "l", "e", ".", "c", "o", "m">>

S_app_example_com == <<"a", "p", "p", ".", "e", "x", "a", "m", "p", "l", "e", ".", "c", "o", "m">>

S_unrelated == <<"t", "o", "t", "a", "l", "l", "y", "u", "n", "r", "e", "l", "a", "t", "e", "d", ".", "n", "e", "t">>

S_xexample_com == <<"x", "e", "x", "a", "m", "p", "l", "e", ".", "c", "o", "m">>

S_a_dev_dot == <<"a", ".", "d", "e", "v", ".">>

S_app == <<"a", "p", "p">>

S_app_dev == <<"a", "p", "p", ".", "d", "e", "v">>

\* env absent, "dev", "prod", another name, or not a string
EnvOpts ==
    {NoMap, [env |-> VInt(5)]} \cup {[env |-> VStr(e)] : e \in {S_dev, S_prod, S_staging}}

\* legacy custom_domain values of an Amplify app
CustomDomains ==
    {S_empty, S_app_dev_example_com, S_app_example_com, S_unrelated, S_example_com,
     S_xexample_com, S_a_dev_dot}

\* an element of amplify_apps
AppOpts ==
    {VMap(Merge(Merge(Merge([name |-> VStr(<<"w">>)], cd), er), sp)) :
        cd \in {NoMap, [custom_domain |-> VInt(1)]}
                \cup {[custom_domain |-> VStr(c)] : c \in CustomDomains},
        er \in {NoMap, [enable_root_domain |-> VBool(TRUE)]},
        sp \in {NoMap, [subdomain_prefix |-> VStr(<<"o">>)]}}
      \cup {VStr(<<"x">>)}

\* the domain block: absent, not a map, or a map with / without its two fields
DomainOpts ==
    {NoMap, [domain |-> VStr(<<"x">>)]}
      \cup {[domain |-> VMap(Merge(dn, aep))] :
              dn \in {NoMap, [domain_name |-> VStr(S_empty)],
                      [domain_name |-> VStr(S_example_com)]},
              aep \in {NoMap, [add_env_domain_prefix |-> VBool(TRUE)],
                       [add_env_domain_prefix |-> VBool(FALSE)]}}

AmplifyOpts ==
    {NoMap, [amplify_apps |-> VNil], [amplify_apps |-> VStr(<<"x">>)],
     [amplify_apps |-> VList(<<>>)]}
      \cup {[amplify_apps |-> VList(<<a>>)] : a \in AppOpts}
      \cup {[amplify_apps |-> VList(<<VMap([name |-> VStr(<<"v">>),
                                          custom_domain |-> VStr(S_app_example_com)]), a>>)] :
              a \in AppOpts}

AmplifyDocs ==
    {VSMap(Merge(Merge(Merge([project |-> VStr(<<"x">>)], e), dm), am)) :
        e \in EnvOpts, dm \in DomainOpts, am \in AmplifyOpts}

\* a key with one of the given values, or absent
Field(k, vals) == {NoMap} \cup {[x \in {k} |-> v] : v \in vals}

\* a top-level block: absent, null, not a map, or a map with the given entries
Block(k, maps) ==
    {NoMap, [x \in {k} |-> VNil], [x \in {k} |-> VStr(<<"x">>)]}
      \cup {[x \in {k} |-> VMap(f)] : f \in maps}

Bools == {VBool(TRUE), VBool(FALSE)}

S_1024 == <<"1", "0", "2", "4">>

S_123 == <<"1", "2", "3">>

\* the postgres block, for the steps to versions 2 and 12
PostgresMaps ==
    {Merge(Merge(Merge(Merge(Merge(Merge(Merge([dbname |-> VStr(<<"v">>)], au), mc), a), b), c), d), e) :
        au \in Field("aurora", Bools),
        mc \in Field("min_capacity", {VInt(2)}),
        a \in Field("multi_az", Bools),
        b \in Field("storage_encrypted", Bools),
        c \in Field("deletion_protection", {VBool(TRUE)}),
        d \in Field("skip_final_snapshot", {VBool(FALSE)}),
        e \in Field("iam_database_authentication_enabled", {VBool(TRUE), VNil})}

PostgresDocs ==
    {VSMap(Merge(Merge(BaseDoc, pg), al)) :
        pg \in Block("postgres", PostgresMaps),
        al \in Field("alb", {VNil, VMap([enabled |-> VBool(TRUE)])})}

\* the workload block, for the step to version 4
WorkloadMaps ==
    {Merge(Merge(Merge(Merge(Merge(Merge(a, b), c), d), e), f), g) :
        a \in Field("backend_desired_count", {VInt(0), VInt(2), VFloat(0)}),
        b \in Field("backend_autoscaling_enabled", Bools),
        c \in Field("backend_autoscaling_min_capacity", {VInt(0)}),
        d \in Field("backend_autoscaling_max_capacity", {VInt(0), VInt(8)}),
        e \in Field("backend_cpu", {VStr(S_empty), VStr(S_1024)}),
        f \in Field("backend_memory", {VStr(S_empty)}),
        g \in Field("backend_alb_domain_name", {VStr(S_empty)})}

WorkloadDocs == {VSMap(Merge(BaseDoc, wl)) : wl \in Block("workload", WorkloadMaps)}

\* the domain block, for the step to version 3
DnsMaps ==
    {Merge(Merge(Merge(Merge(Merge(Merge([domain_name |-> VStr(S_example_com)], a), b), c), d), e), f) :
        a \in Field("create_domain_zone", Bools \cup {VStr(<<"n">>)}),
        b \in Field("zone_id", {VStr(<<"Z">>)}),
        c \in Field("root_zone_id", {VStr(S_empty)}),
        d \in Field("is_dns_root", {VBool(TRUE)}),
        e \in Field("api_domain_prefix", {VStr(<<"a">>)}),
        f \in Field("add_env_domain_prefix", {VBool(TRUE)})}

DnsDocs == {VSMap(Merge(BaseDoc, dm)) : dm \in Block("domain", DnsMaps)}

\* the networking keys, for the step to version 6
VpcDocs ==
    {VSMap(Merge(Merge(Merge(BaseDoc, vp), ci), dp)) :
        vp \in VpcOpts,
        ci \in Field("vpc_cidr", {VStr(S_empty), VStr(<<"1">>), VNil,
                                  VMap([a |-> VInt(1)])}),
        dp \in DeprOpts}

\* the ECR keys, for the steps to versions 5, 7 and 8
EcrDocs ==
    {VSMap(Merge(Merge(Merge(Merge(Merge([project |-> VStr(<<"x">>)], e), es), id), rg), tr)) :
        e \in EnvOpts,
        es \in Field("ecr_strategy", {VStr(S_local), VStr(S_cross_account), VNil}),
        id \in Field("ecr_account_id", {VNil, VStr(S_empty), VStr(S_123), VInt(123)}),
        rg \in Field("ecr_account_region", {VStr(<<"r">>)}),
        tr \in Field("ecr_trusted_accounts", {VList(<<VStr(S_123)>>)})}

\* an element of services
ServiceOpts ==
    {VMap([name |-> VStr(<<"a">>), container_port |-> VInt(80), host_port |-> VInt(80)]),
     VMap([name |-> VStr(<<"b">>), container_port |-> VInt(80), host_port |-> VInt(90)]),
     VMap([name |-> VStr(<<"c">>), container_port |-> VInt(80)]),
     VMap([container_port |-> VInt(80), host_port |-> VStr(<<"8", "0">>),
           ecr_config |-> VMap([mode |-> VStr(<<"m">>)])]),
     VMap([name |-> VStr(<<"e">>), host_port |-> VInt(90)]),
     VMap([container_port |-> VList(<<VInt(80)>>), host_port |-> VList(<<VInt(80)>>)]),
     VStr(<<"x">>)}

\* the longest services list tried
MaxServices == 3

ServiceLists ==
    UNION {[1..n -> ServiceOpts] : n \in 0..MaxServices}

ServiceDocs ==
    {VSMap(Merge(BaseDoc, sv)) :
        sv \in {NoMap, [services |-> VNil], [services |-> VStr(<<"x">>)]}
                \cup {[services |-> VList(q)] : q \in ServiceLists}}

\* a list of services or tasks: absent, null, not a list, empty, or with
\* elements with and without ecr_config and elements that are no maps
TaskLists(k) ==
    Field(k, {VNil, VStr(<<"x">>), VList(<<>>),
              VList(<<VMap([name |-> VStr(<<"a">>)])>>),
              VList(<<VMap([name |-> VStr(<<"b">>),
                            ecr_config |-> VMap([mode |-> VStr(<<"m">>)])]),
                      VInt(1),
                      VMap([name |-> VStr(<<"c">>)]),
                      VMap([ecr_config |-> VNil])>>)})

\* the three lists, for the step to version 10
TaskDocs ==
    {VSMap(Merge(Merge(Merge(BaseDoc, sv), ev), sc)) :
        sv \in TaskLists("services"),
        ev \in TaskLists("event_processor_tasks"),
        sc \in TaskLists("scheduled_tasks")}

StepDocs ==
    AmplifyDocs \cup PostgresDocs \cup WorkloadDocs \cup DnsDocs \cup VpcDocs
        \cup EcrDocs \cup ServiceDocs \cup TaskDocs

InitStep == InitWith(AllMigrations, {Missing}, StepDocs)

NextStep == \E i \in 1..Len(registry) : CallStep(1, i)

SpecStep == InitStep /\ [][NextStep]_vars

(***************************************************************************)
(* SpecRun: applyMigrations(mem, from) for any from, on documents with     *)
(* services of every shape and on files as first written.                  *)
(***************************************************************************)
RunDocs == ServiceDocs \cup FirstFiles

InitRun == InitWith(AllMigrations, {Missing}, RunDocs)

SpecRun == InitRun /\ [][NextApply]_vars

(***************************************************************************)
(* The template helpers called on values of every kind.                    *)
(***************************************************************************)
HelperValues ==
    {VNil, VBool(TRUE), VBool(FALSE), VInt(0), VInt(1), VFloat(0), VFloat(5),
     VStr(S_empty), VStr(S_hello), VList(<<>>), VList(<<VInt(1)>>),
     VMap(NoMap), VSMap(NoMap), VMap([k \in {"a"} |-> VInt(0)]),
     VArray(<<>>), VArray(<<VInt(0)>>), VOther}

HelperCall(name, a, b, r) ==
    [IdleProc EXCEPT !.op = name, !.pc = "done", !.input = a, !.dataMap = b,
                     !.result = r]

\* {{default value defaultValue}}
CallDefault(p) ==
    /\ Quiet(p)
    /\ \E value, defaultValue \in HelperValues :
          proc' = [proc EXCEPT ![p] =
                     HelperCall("default", value, defaultValue,
                                default(value, defaultValue))]
    /\ UNCHANGED <<registry, disk, orig, backups, writes, mem, batch, aws, clock>>

\* {{#if (exists value)}}
CallExists(p) ==
    /\ Quiet(p)
    /\ \E value \in HelperValues :
          proc' = [proc EXCEPT ![p] =
                     HelperCall("exists", value, VNil, VBool(exists(value)))]
    /\ UNCHANGED <<registry, disk, orig, backups, writes, mem, batch, aws, clock>>

\* {{#if (or a b)}}
CallOr(p) ==
    /\ Quiet(p)
    /\ \E a, b \in HelperValues :
          proc' = [proc EXCEPT ![p] = HelperCall("or", a, b, VBool(or(a, b)))]
    /\ UNCHANGED <<registry, disk, orig, backups, writes, mem, batch, aws, clock>>

\* isTruthy(value) called directly
CallIsTruthy(p) ==
    /\ Quiet(p)
    /\ \E value \in HelperValues :
          proc' = [proc EXCEPT ![p] =
                     HelperCall("isTruthy", value, VNil, VBool(isTruthy(value)))]
    /\ UNCHANGED <<registry, disk, orig, backups, writes, mem, batch, aws, clock>>

InitHelpers == InitWith(AllMigrations, {Missing}, {VNil})

NextHelpers ==
    \/ CallDefault(1)
    \/ CallExists(1)
    \/ CallOr(1)
    \/ CallIsTruthy(1)

SpecHelpers == InitHelpers /\ [][NextHelpers]_vars

(***************************************************************************)
(* Properties.                                                             *)
(***************************************************************************)
IsPrefix(a, b) == Len(a) <= Len(b) /\ a = SubSeq(b, 1, Len(a))

Last(q) == q[Len(q)]

Front(q) == SubSeq(q, 1, Len(q) - 1)

\* the target versions above from, ascending
Expected(from) ==
    LET lo == IF from < 1 THEN 1 ELSE from
    IN  [i \in 1..(CurrentSchemaVersion - lo) |-> lo + i]

\* the shipped step that produces target version v
StepOf(v, d) ==
    CASE v = 2 -> migrateToV2(d)
      [] v = 3 -> migrateToV3(d)
      [] v = 4 -> migrateToV4(d)
      [] v = 5 -> migrateToV5(d)
      [] v = 6 -> migrateToV6(d)
      [] v = 7 -> migrateToV7(d)
      [] v = 8 -> migrateToV8(d)
      [] v = 9 -> migrateToV9(d)
      [] v = 10 -> migrateV8ToV9(d)
      [] v = 11 -> migrateToV11(d)
      [] v = 12 -> migrateToV12(d)

\* the steps for the versions vs applied one after the other, each to the
\* result of the one before
RECURSIVE Chain(_, _)
Chain(d, vs) == IF vs = <<>> THEN d ELSE Chain(StepOf(Head(vs), d), Tail(vs))

\* applyMigrations went through its loop and returned nil
ApplyReturnedOK(st) ==
    /\ st.op # "none"
    /\ st.currentVersion < CurrentSchemaVersion
    /\ \/ st.pc \in {"save", "decode"}
       \/ st.pc = "done" /\ st.err \in {"none", "write", "decode"}

StampOf(d) == Get(d, "schema_version")

\* C1: applyMigrations(doc, from) with from below the current version invokes
\* the steps with target version above from, and no other, each once, in
\* ascending order, every step on the document the previous one left.
C1_StepsInOrder ==
    \A p \in Procs :
        LET st == proc[p] IN
        (st.op # "none" /\ st.currentVersion < CurrentSchemaVersion) =>
            /\ IsPrefix(st.invoked, Expected(st.currentVersion))
            /\ st.pc = "migrate" => st.dataMap = Chain(st.input, st.invoked)
            /\ ApplyReturnedOK(st) =>
                  /\ st.invoked = Expected(st.currentVersion)
                  /\ st.dataMap = Put(Chain(st.input, st.invoked), "schema_version",
                                      VInt(CurrentSchemaVersion))

C1_Witness ==
    \E p \in Procs :
        /\ proc[p].op = "apply" /\ proc[p].pc = "done" /\ proc[p].err = "none"
        /\ proc[p].currentVersion = 4
        /\ proc[p].invoked = <<5, 6, 7, 8, 9, 10, 11, 12>>
        /\ Has(proc[p].input, "az_count")

\* C2: the backup has succeeded before any step runs and before the file is
\* rewritten; a failed backup ends the operation with no step run and the
\* file as it was; whenever the disk differs from the original disk a backup
\* artifact with the original bytes exists.
C2_BackupFirst ==
    /\ \A p \in Procs :
          LET st == proc[p] IN
          st.op \in {"load", "migrate"} =>
             /\ (st.invoked # <<>> \/ st.wrote \/ st.pc \in {"migrate", "save"}) =>
                   /\ st.backedUp
                   /\ \E i \in 1..Len(backups) : backups[i].path = st.path
             /\ st.err = "backup" =>
                   /\ st.pc = "done" /\ st.invoked = <<>> /\ ~st.wrote
                   /\ st.dataMap = st.input
    /\ (\A p \in Procs : ~proc[p].backedUp) => disk = orig
    /\ disk # orig =>
          /\ Len(backups) > 0
          /\ backups[1].content = orig[backups[1].path]

C2_Witness ==
    \E p \in Procs :
        /\ proc[p].op = "migrate" /\ proc[p].wrote /\ proc[p].backedUp
        /\ disk # orig
        /\ Len(backups) = 1

\* C3: the file is rewritten only after applyMigrations returned success for
\* all steps; when a step fails the operation ends with an error, the file
\* holds the bytes that were read, without the stamp, and the backup remains.
C3_WriteOnlyAfterSuccess ==
    \A p \in Procs :
        LET st == proc[p] IN
        st.op \in {"load", "migrate"} =>
           /\ st.err = "migration" =>
                 /\ st.pc = "done" /\ ~st.wrote
                 /\ disk[st.path] = st.data
                 /\ st.backedUp
                 /\ \E i \in 1..Len(backups) : backups[i].path = st.path
           /\ st.wrote =>
                 /\ st.err # "migration"
                 /\ st.invoked = Expected(st.currentVersion)

C3_Witness ==
    \E p \in Procs :
        /\ proc[p].op = "load" /\ proc[p].err = "migration"
        /\ Len(proc[p].invoked) >= 2
        /\ proc[p].dataMap # proc[p].input
        /\ disk = orig

\* the target versions of the registry entries whose Apply returns an error
FailingVersions ==
    {registry[i].Version : i \in {j \in 1..Len(registry) : registry[j].Apply = "failing"}}

\* C4: when a step returns an error applyMigrations stops at that step: no
\* later step is invoked, schema_version is not set, the error names the
\* step's target version, and what the earlier steps did stays.
C4_StopAtFailingStep ==
    \A p \in Procs :
        LET st == proc[p] IN
        st.op # "none" =>
           /\ st.err = "migration" =>
                 /\ st.pc = "done"
                 /\ st.invoked # <<>>
                 /\ IsPrefix(st.invoked, Expected(st.currentVersion))
                 /\ st.errVersion = Last(st.invoked)
                 /\ st.errVersion \in FailingVersions
                 /\ StampOf(st.dataMap) = StampOf(st.input)
                 /\ StampOf(st.dataMap) # VInt(CurrentSchemaVersion)
                 /\ st.dataMap = Chain(st.input, Front(st.invoked))
           /\ ApplyReturnedOK(st) =>
                 \A v \in FailingVersions : v <= st.currentVersion

C4_Witness ==
    \E p \in Procs :
        /\ proc[p].err = "migration" /\ proc[p].errVersion = 9
        /\ proc[p].invoked = <<6, 7, 8, 9>>
        /\ proc[p].dataMap # proc[p].input
        /\ ~Has(proc[p].dataMap, "az_count") /\ Has(proc[p].input, "az_count")

\* C5: when applyMigrations is called with from below the current version
\* and every step succeeds, schema_version is CurrentSchemaVersion on
\* return, whatever the key held before.
C5_StampedCurrent ==
    \A p \in Procs :
        ApplyReturnedOK(proc[p]) =>
            StampOf(proc[p].dataMap) = VInt(CurrentSchemaVersion)

C5_Witness ==
    \E p \in Procs :
        /\ ApplyReturnedOK(proc[p]) /\ proc[p].op = "apply" /\ proc[p].pc = "done"
        /\ StampOf(proc[p].input) = VInt(3)
        /\ proc[p].currentVersion = 7

\* C6: applyMigrations with from at or above the current version returns
\* success and leaves the document as it is: no step is invoked and
\* schema_version is not written.
C6_NoOpWhenCurrent ==
    \A p \in Procs :
        LET st == proc[p] IN
        (st.op = "apply" /\ st.currentVersion >= CurrentSchemaVersion) =>
            /\ st.pc = "done" /\ st.err = "none"
            /\ st.invoked = <<>>
            /\ st.dataMap = st.input
            /\ mem = st.input

C6_Witness ==
    \E p \in Procs :
        /\ proc[p].op = "apply" /\ proc[p].pc = "done"
        /\ proc[p].currentVersion = CurrentSchemaVersion
        /\ StampOf(mem) = VInt(CurrentSchemaVersion + 1)

\* C7: a second run on the file that a first successful run wrote detects
\* CurrentSchemaVersion, invokes no step, makes no backup and does not
\* rewrite the file, which stays as the first run left it.
C7_SecondRunNoOp ==
    \A p, q \in Procs :
        LET st == proc[p]
            first == proc[q] IN
        (q < p /\ first.pc = "done" /\ first.err = "none" /\ first.wrote
           /\ st.op \in {"load", "migrate"} /\ st.path = first.path) =>
            /\ st.currentVersion = CurrentSchemaVersion
            /\ st.invoked = <<>>
            /\ ~st.backedUp /\ ~st.wrote
            /\ disk[st.path] = first.data
            /\ st.dataMap = first.data.doc
            /\ st.err \in {"none", "decode"}
            /\ (st.pc = "done" /\ st.op = "load" /\ first.op = "load") =>
                  (st.err = "none" /\ st.env = first.env)

C7_Witness ==
    \E p, q \in Procs :
        /\ q < p /\ proc[q].pc = "done" /\ proc[q].err = "none" /\ proc[q].wrote
        /\ proc[p].op = "load" /\ proc[p].pc = "done" /\ proc[p].path = proc[q].path
        /\ proc[q].currentVersion = 1

\* C8: detectSchemaVersion returns the integer stored under schema_version,
\* except that a stored 6 together with any of the deprecated networking
\* keys yields 5; such a document has the steps 6..12 run, which remove the
\* deprecated keys, add use_default_vpc = true only when absent, and stamp
\* the document with CurrentSchemaVersion.
C8_Redetect ==
    \A p \in Procs :
        LET st == proc[p]
            sv == StampOf(st.input)
            leftover == \E k \in DeprecatedKeys : Has(st.input, k) IN
        (st.op \in {"load", "migrate"} /\ st.err \notin {"read", "parse"}
            /\ sv.t = "int") =>
            /\ st.currentVersion = IF sv.n = 6 /\ leftover THEN 5 ELSE sv.n
            /\ (sv.n = 6 /\ leftover /\ ApplyReturnedOK(st)) =>
                  /\ st.invoked = <<6, 7, 8, 9, 10, 11, 12>>
                  /\ \A k \in DeprecatedKeys : ~Has(st.dataMap, k)
                  /\ Get(st.dataMap, "use_default_vpc") =
                        IF Has(st.input, "use_default_vpc")
                        THEN Get(st.input, "use_default_vpc") ELSE VBool(TRUE)
                  /\ StampOf(st.dataMap) = VInt(CurrentSchemaVersion)

C8_Witness ==
    \E p \in Procs :
        /\ ApplyReturnedOK(proc[p]) /\ proc[p].wrote
        /\ StampOf(proc[p].input) = VInt(6)
        /\ Has(proc[p].input, "enable_nat_gateway")
        /\ ~Has(proc[p].input, "az_count")
        /\ Get(proc[p].input, "use_default_vpc") = VBool(FALSE)
        /\ Get(disk[proc[p].path].doc, "use_default_vpc") = VBool(FALSE)

\* key is a YAML map that contains marker
MarkerIn(d, key, marker) ==
    Has(d, key) /\ d.m[key].t = "map" /\ marker \in DOMAIN d.m[key].m

\* C9: without an integer schema_version, detectSchemaVersion returns the
\* first match of: 5 for a top-level account_id, 4 for backend_desired_count
\* in a workload map, 3 for zone_id in a domain map, 2 for aurora in a
\* postgres map, else 1; a missing or non-map sub-document is no match.
C9_Sniff ==
    \A p \in Procs :
        LET st == proc[p]
            d == st.input IN
        (st.op \in {"load", "migrate"} /\ st.err \notin {"read", "parse"}
            /\ StampOf(d).t # "int") =>
            st.currentVersion =
                IF Has(d, "account_id") THEN 5
                ELSE IF MarkerIn(d, "workload", "backend_desired_count") THEN 4
                ELSE IF MarkerIn(d, "domain", "zone_id") THEN 3
                ELSE IF MarkerIn(d, "postgres", "aurora") THEN 2
                ELSE 1

C9_Witness ==
    \E p \in Procs :
        /\ proc[p].op = "load" /\ proc[p].pc = "done"
        /\ proc[p].currentVersion = 3
        /\ ~Has(proc[p].input, "schema_version")
        /\ Get(proc[p].input, "workload").t = "str"
        /\ MarkerIn(proc[p].input, "postgres", "aurora")

\* C10: a document that carries any of the three deprecated networking keys
\* contains none of them after migration, whatever version it starts from.
C10_DeprecatedRemoved ==
    \A p \in Procs :
        (proc[p].op \in {"load", "migrate"} /\ ApplyReturnedOK(proc[p])) =>
            \A k \in DeprecatedKeys : ~Has(proc[p].dataMap, k)

(***************************************************************************)
(* Properties of the single steps.                                         *)
(***************************************************************************)
\* the call of a step that process p made and that returned
StepReturned(st) == st.op = "step" /\ st.err = "none"

\* the target version of the step called
StepVersion(st) == st.invoked[1]

\* whether the field at a path (a top-level key, or a key of a top-level
\* map) exists, and its value
PathIn(d, pth) ==
    IF Len(pth) = 1 THEN Has(d, pth[1])
    ELSE IsYMap(d, pth[1]) /\ SubHas(d, pth[1], pth[2])

PathVal(d, pth) ==
    IF Len(pth) = 1 THEN Get(d, pth[1]) ELSE SubGet(d, pth[1], pth[2])

\* the fields for which the step to version v writes a default
DefaultFields(v) ==
    CASE v = 2 -> {<<"alb">>} \cup {<<"postgres", f>> :
                      f \in {"aurora", "min_capacity", "max_capacity"}}
      [] v = 3 -> {<<"domain", f>> :
                      f \in {"zone_id", "root_zone_id", "root_account_id", "is_dns_root",
                             "dns_root_account_id", "delegation_role_arn",
                             "api_domain_prefix", "add_env_domain_prefix"}}
      [] v = 4 -> {<<"workload", f>> :
                      f \in {"backend_desired_count", "backend_autoscaling_enabled",
                             "backend_autoscaling_min_capacity",
                             "backend_autoscaling_max_capacity", "backend_cpu",
                             "backend_memory", "backend_alb_domain_name"}}
      [] v = 5 -> {<<"account_id">>, <<"aws_profile">>}
      [] v = 6 -> {<<"use_default_vpc">>}
      [] v = 7 -> {<<"ecr_strategy">>, <<"ecr_account_id">>, <<"ecr_account_region">>}
      [] v = 8 -> {<<"ecr_trusted_accounts">>}
      [] v = 12 -> {<<"postgres", f>> :
                      f \in {"multi_az", "storage_encrypted", "deletion_protection",
                             "skip_final_snapshot",
                             "iam_database_authentication_enabled"}}
      [] OTHER -> {}

\* C11: a step that adds default fields leaves every such field that is
\* already present, whatever its value (false, 0 and "" included), with
\* exactly the value it had.
C11_NoClobber ==
    \A p \in Procs :
        LET st == proc[p] IN
        StepReturned(st) =>
            \A pth \in DefaultFields(StepVersion(st)) :
                PathIn(st.input, pth) =>
                    /\ PathIn(st.dataMap, pth)
                    /\ PathVal(st.dataMap, pth) = PathVal(st.input, pth)

\* the string under key k of the map value v, or "" when there is none
StrAt(v, k) ==
    IF v.t = "map" /\ k \in DOMAIN v.m /\ v.m[k].t = "str" THEN v.m[k].s ELSE S_empty

\* the apps of a document's amplify_apps list
AppsOf(d) == IF Get(d, "amplify_apps").t = "list" THEN Get(d, "amplify_apps").l ELSE <<>>

\* the document configures base domain dn and environment e with
\* add_env_domain_prefix = true
EnvPrefixed(d, dn, e) ==
    /\ IsYMap(d, "domain")
    /\ SubGet(d, "domain", "domain_name") = VStr(dn)
    /\ SubGet(d, "domain", "add_env_domain_prefix") = VBool(TRUE)
    /\ Get(d, "env") = VStr(e)

\* C12: with domain_name example.com, env dev and add_env_domain_prefix true,
\* migrateToV9 turns an app's custom_domain app.dev.example.com into
\* subdomain_prefix app and removes custom_domain (P.E.D gives P).
C12_PrefixExtracted ==
    \A p \in Procs :
        LET st == proc[p] IN
        (StepReturned(st) /\ StepVersion(st) = 9
            /\ EnvPrefixed(st.input, S_example_com, S_dev)) =>
            \A i \in 1..Len(AppsOf(st.input)) :
                StrAt(AppsOf(st.input)[i], "custom_domain") = S_app \o S_dot \o S_dev
                                                               \o S_dot \o S_example_com =>
                    /\ StrAt(AppsOf(st.dataMap)[i], "subdomain_prefix") = S_app
                    /\ "custom_domain" \notin DOMAIN AppsOf(st.dataMap)[i].m

\* the base domain is configured and is no proper suffix of the custom domain
NotSuffixed(d, customDomain) ==
    LET dn == IF IsYMap(d, "domain") THEN StrAt(Get(d, "domain"), "domain_name")
              ELSE S_empty
    IN  dn # S_empty /\ customDomain # S_empty /\ ~EndsWith(customDomain, dn)

\* C13: an app whose custom_domain does not end with the configured base
\* domain keeps custom_domain as it is and gets no subdomain_prefix from
\* migrateToV9.
C13_UnrelatedKept ==
    \A p \in Procs :
        LET st == proc[p] IN
        (StepReturned(st) /\ StepVersion(st) = 9) =>
            \A i \in 1..Len(AppsOf(st.input)) :
                LET app == AppsOf(st.input)[i]
                    out == AppsOf(st.dataMap)[i]
                IN  NotSuffixed(st.input, StrAt(app, "custom_domain")) =>
                        /\ StrAt(out, "custom_domain") = StrAt(app, "custom_domain")
                        /\ ("subdomain_prefix" \in DOMAIN out.m) =
                               ("subdomain_prefix" \in DOMAIN app.m)
                        /\ StrAt(out, "subdomain_prefix") = StrAt(app, "subdomain_prefix")

ServicesOf(d) == IF Get(d, "services").t = "list" THEN Get(d, "services").l ELSE <<>>

HasPort(svc, k) == svc.t = "map" /\ k \in DOMAIN svc.m

\* the list of the port synchronization scenario: matching ports, a
\* mismatched host port, no host port
ThreeServices ==
    <<VMap([name |-> VStr(<<"a">>), container_port |-> VInt(80), host_port |-> VInt(80)]),
      VMap([name |-> VStr(<<"b">>), container_port |-> VInt(80), host_port |-> VInt(90)]),
      VMap([name |-> VStr(<<"c">>), container_port |-> VInt(80)])>>

Loaded(st) == st.op = "load" /\ st.pc = "done" /\ st.err = "none"

\* C15 as stated: the Env a successful load returns is decoded from a
\* document whose schema version is exactly CurrentSchemaVersion, never from
\* one below it or above it.
C15_OnlyCurrentDecoded ==
    \A p \in Procs :
        Loaded(proc[p]) => detectSchemaVersion(proc[p].data.doc) = CurrentSchemaVersion

\* C15 amended: the Env a successful load returns is never decoded from a
\* document below CurrentSchemaVersion: a file detected below it is migrated
\* and the Env is decoded from the rewritten bytes, stamped
\* CurrentSchemaVersion; a file stamped above CurrentSchemaVersion is not
\* rejected but decoded as it is, without backup, step or write.
C15_NeverBelowCurrent ==
    \A p \in Procs :
        LET st == proc[p]
            v == detectSchemaVersion(st.data.doc)
        IN  Loaded(st) =>
            /\ v >= CurrentSchemaVersion
            /\ st.env.SchemaVersion = v
            /\ st.currentVersion <= CurrentSchemaVersion => v = CurrentSchemaVersion
            /\ st.currentVersion < CurrentSchemaVersion =>
                  st.wrote /\ st.data = Marshal(st.dataMap)
            /\ st.currentVersion > CurrentSchemaVersion =>
                  /\ v = st.currentVersion
                  /\ ~st.wrote /\ ~st.backedUp /\ st.invoked = <<>>
                  /\ st.data.doc = st.input

C15_Witness ==
    \E p \in Procs :
        /\ Loaded(proc[p])
        /\ proc[p].currentVersion = CurrentSchemaVersion + 1
        /\ proc[p].env.SchemaVersion = CurrentSchemaVersion + 1
        /\ disk = orig

\* keys that only later schema versions know (Aurora and ALB, DNS, scaling,
\* account, VPC, ECR, Amplify)
LaterTopKeys ==
    {"schema_version", "alb", "account_id", "aws_profile", "use_default_vpc", "vpc_cidr",
     "ecr_strategy", "ecr_account_id", "ecr_account_region", "ecr_trusted_accounts",
     "amplify_apps"} \cup DeprecatedKeys

LaterSubKeys(k) ==
    CASE k = "postgres" -> {"aurora", "min_capacity", "max_capacity"}
      [] k = "domain"   -> {"zone_id", "root_zone_id", "is_dns_root"}
      [] k = "workload" -> {"backend_desired_count", "backend_cpu", "backend_memory"}

\* a version-1 file
FirstVersion(d) ==
    /\ d.t = "smap"
    /\ \A k \in LaterTopKeys : ~Has(d, k)
    /\ \A k \in {"postgres", "domain", "workload"} :
          IsYMap(d, k) => \A f \in LaterSubKeys(k) : ~SubHas(d, k, f)

\* C16: a successful load of a version-1 file returns an Env with
\* SchemaVersion = CurrentSchemaVersion, Postgres.Aurora = false,
\* UseDefaultVPC = true and ECRStrategy local or cross_account, and a backup
\* of the original file exists.
C16_EndToEnd ==
    \A p \in Procs :
        LET st == proc[p] IN
        (Loaded(st) /\ FirstVersion(st.input)) =>
            /\ st.currentVersion = 1
            /\ st.env.SchemaVersion = CurrentSchemaVersion
            /\ ~st.env.Aurora
            /\ st.env.UseDefaultVPC
            /\ st.env.ECRStrategy \in {S_local, S_cross_account}
            /\ st.wrote
            /\ \E i \in 1..Len(backups) :
                  /\ backups[i].path = st.path
                  /\ backups[i].content = Yaml(st.input)

C16_Witness ==
    \E p \in Procs :
        /\ Loaded(proc[p]) /\ FirstVersion(proc[p].input)
        /\ IsYMap(proc[p].input, "postgres")
        /\ Get(proc[p].input, "env") = VStr(S_prod)
        /\ proc[p].env = [SchemaVersion |-> CurrentSchemaVersion, Aurora |-> FALSE,
                          UseDefaultVPC |-> TRUE, ECRStrategy |-> S_local]
        /\ Len(backups) = 1

\* every key of old, at any depth, is in new with the same value: maps and
\* lists may gain entries inside their maps, everything else is equal
RECURSIVE Preserved(_, _)
Preserved(old, new) ==
    CASE old.t \in {"map", "smap"} ->
            /\ new.t = old.t
            /\ \A k \in DOMAIN old.m : k \in DOMAIN new.m /\ Preserved(old.m[k], new.m[k])
      [] old.t = "list" ->
            /\ new.t = "list"
            /\ Len(new.l) = Len(old.l)
            /\ \A i \in 1..Len(old.l) : Preserved(old.l[i], new.l[i])
      [] OTHER -> new = old

\* C17: a migration run only adds fields: every key other than
\* schema_version that the document had before the run is still there with
\* the same value after it.
C17_OnlyAdds ==
    \A p \in Procs :
        LET st == proc[p] IN
        ApplyReturnedOK(st) =>
            \A k \in DOMAIN st.input.m \ {"schema_version"} :
                Has(st.dataMap, k) /\ Preserved(st.input.m[k], st.dataMap.m[k])

\* the defaults the booleans of postgres are expected to get
ExpectedDefaults ==
    [multi_az |-> VBool(FALSE), storage_encrypted |-> VBool(TRUE),
     deletion_protection |-> VBool(FALSE), skip_final_snapshot |-> VBool(TRUE),
     iam_database_authentication_enabled |-> VBool(FALSE)]

\* the map f without the keys in ks
Outside(f, ks) == [k \in (DOMAIN f) \ ks |-> f[k]]

\* C18: migrateToV12 on a postgres map sets each of the five boolean keys
\* to its default exactly when the key is absent and leaves present keys and
\* all other postgres keys as they are; a document whose postgres is absent,
\* null or no map is unchanged.
C18_PostgresBooleans ==
    \A p \in Procs :
        LET st == proc[p] IN
        (StepReturned(st) /\ StepVersion(st) = 12) =>
            IF IsYMap(st.input, "postgres")
            THEN /\ IsYMap(st.dataMap, "postgres")
                 /\ \A f \in DOMAIN ExpectedDefaults :
                       SubGet(st.dataMap, "postgres", f) =
                           IF SubHas(st.input, "postgres", f)
                           THEN SubGet(st.input, "postgres", f)
                           ELSE ExpectedDefaults[f]
                 /\ \A f \in DOMAIN ExpectedDefaults : SubHas(st.dataMap, "postgres", f)
                 /\ Outside(st.dataMap.m["postgres"].m, DOMAIN ExpectedDefaults) =
                       Outside(st.input.m["postgres"].m, DOMAIN ExpectedDefaults)
                 /\ Delete(st.dataMap, "postgres") = Delete(st.input, "postgres")
            ELSE st.dataMap = st.input

C18_Witness ==
    \E p \in Procs :
        /\ StepReturned(proc[p]) /\ StepVersion(proc[p]) = 12
        /\ IsYMap(proc[p].input, "postgres")
        /\ SubGet(proc[p].input, "postgres", "storage_encrypted") = VBool(FALSE)
        /\ SubGet(proc[p].input, "postgres", "multi_az") = VBool(TRUE)
        /\ ~SubHas(proc[p].input, "postgres", "skip_final_snapshot")
        /\ SubGet(proc[p].dataMap, "postgres", "storage_encrypted") = VBool(FALSE)
        /\ SubGet(proc[p].dataMap, "postgres", "skip_final_snapshot") = VBool(TRUE)

\* the strategy the priority rule gives for a document without ecr_strategy
StrategyByRule(d) ==
    IF Get(d, "env") = VStr(S_dev) THEN S_local
    ELSE IF Has(d, "ecr_account_id") /\ Get(d, "ecr_account_id") # VNil
            /\ Get(d, "ecr_account_id") # VStr(S_empty)
         THEN S_cross_account
    ELSE S_local

EcrKeys == {"ecr_strategy", "ecr_account_id", "ecr_account_region"}

\* C19: migrateToV7 sets ecr_strategy only when absent, to local for env
\* "dev", else to cross_account when ecr_account_id is present, not null and
\* not empty, else to local; an existing ecr_strategy is kept; afterwards
\* ecr_strategy, ecr_account_id and ecr_account_region exist, the latter two
\* with their earlier values where they had any.
C19_EcrStrategy ==
    \A p \in Procs :
        LET st == proc[p] IN
        (StepReturned(st) /\ StepVersion(st) = 7) =>
            /\ Get(st.dataMap, "ecr_strategy") =
                  IF Has(st.input, "ecr_strategy") THEN Get(st.input, "ecr_strategy")
                  ELSE VStr(StrategyByRule(st.input))
            /\ \A k \in EcrKeys : Has(st.dataMap, k)
            /\ \A k \in {"ecr_account_id", "ecr_account_region"} :
                  Get(st.dataMap, k) = Get(st.input, k)
            /\ Outside(st.dataMap.m, EcrKeys) = Outside(st.input.m, EcrKeys)

C19_Witness ==
    \E p \in Procs :
        /\ StepReturned(proc[p]) /\ StepVersion(proc[p]) = 7
        /\ Get(proc[p].input, "env") = VStr(S_dev)
        /\ Get(proc[p].input, "ecr_account_id") = VStr(S_123)
        /\ ~Has(proc[p].input, "ecr_strategy")
        /\ Get(proc[p].dataMap, "ecr_strategy") = VStr(S_local)

VpcKeys == {"use_default_vpc", "vpc_cidr"} \cup DeprecatedKeys

KeptOrDefault(d, k, f, def) == IF SubHas(d, k, f) THEN SubGet(d, k, f) ELSE def

WorkloadKeys ==
    {"backend_desired_count", "backend_autoscaling_enabled",
     "backend_autoscaling_min_capacity", "backend_autoscaling_max_capacity",
     "backend_cpu", "backend_memory", "backend_alb_domain_name"}

\* the value of a field that is defaulted and also repaired when it holds
\* the sentinel
RepairedOrDefault(d, f, sentinel, def) ==
    IF ~SubHas(d, "workload", f) \/ SubGet(d, "workload", f) = sentinel THEN def
    ELSE SubGet(d, "workload", f)

TaskKeys == {"services", "event_processor_tasks", "scheduled_tasks"}

\* the ecr_config the step to version 10 adds
DefaultEcrConfig == VSMap([mode |-> VStr(S_create_ecr)])

\* C22: the step to version 10 adds ecr_config = {mode: create_ecr} to
\* every map element of services, event_processor_tasks and scheduled_tasks
\* that has no ecr_config key, leaves elements with an ecr_config and
\* elements that are no maps as they are, and returns without change for a
\* list that is absent, empty or not a list.
C22_EcrConfigAdded ==
    \A p \in Procs :
        LET st == proc[p] IN
        (StepReturned(st) /\ StepVersion(st) = 10) =>
            /\ Outside(st.dataMap.m, TaskKeys) = Outside(st.input.m, TaskKeys)
            /\ \A k \in TaskKeys :
                  LET old == Get(st.input, k)
                      new == Get(st.dataMap, k)
                  IN  /\ Has(st.dataMap, k) = Has(st.input, k)
                      /\ IF old.t = "list"
                         THEN /\ new.t = "list" /\ Len(new.l) = Len(old.l)
                              /\ \A i \in 1..Len(old.l) :
                                    IF old.l[i].t = "map"
                                       /\ "ecr_config" \notin DOMAIN old.l[i].m
                                    THEN /\ new.l[i].t = "map"
                                         /\ new.l[i].m["ecr_config"] = DefaultEcrConfig
                                         /\ Without(new.l[i].m, "ecr_config") = old.l[i].m
                                    ELSE new.l[i] = old.l[i]
                         ELSE new = old

C22_Witness ==
    \E p \in Procs :
        /\ StepReturned(proc[p]) /\ StepVersion(proc[p]) = 10
        /\ Get(proc[p].input, "services").t = "list"
        /\ Len(Get(proc[p].input, "services").l) = 4
        /\ Get(proc[p].input, "event_processor_tasks") = VStr(<<"x">>)
        /\ ~Has(proc[p].input, "scheduled_tasks")
        /\ Get(proc[p].dataMap, "services").l[3].m["ecr_config"] = DefaultEcrConfig
        /\ Get(proc[p].dataMap, "services").l[1] = Get(proc[p].input, "services").l[1]

DnsDefaults ==
    [root_zone_id |-> VStr(S_empty), root_account_id |-> VStr(S_empty),
     is_dns_root |-> VBool(FALSE), dns_root_account_id |-> VStr(S_empty),
     delegation_role_arn |-> VStr(S_empty), api_domain_prefix |-> VStr(S_empty),
     add_env_domain_prefix |-> VBool(FALSE)]

\* C23: migrateToV3 on a domain map adds zone_id = "" only if
\* create_domain_zone is the boolean false and zone_id is absent (absent or
\* non-boolean create_domain_zone counts as true), adds each of the seven
\* other DNS fields with its default only if that key is absent, and keeps
\* existing values; without a domain map nothing is added.
C23_DnsDefaults ==
    \A p \in Procs :
        LET st == proc[p] IN
        (StepReturned(st) /\ StepVersion(st) = 3) =>
            IF IsYMap(st.input, "domain")
            THEN /\ IsYMap(st.dataMap, "domain")
                 /\ SubHas(st.dataMap, "domain", "zone_id") =
                       \/ SubHas(st.input, "domain", "zone_id")
                       \/ SubGet(st.input, "domain", "create_domain_zone") = VBool(FALSE)
                 /\ SubHas(st.dataMap, "domain", "zone_id") =>
                       SubGet(st.dataMap, "domain", "zone_id") =
                           KeptOrDefault(st.input, "domain", "zone_id", VStr(S_empty))
                 /\ \A f \in DOMAIN DnsDefaults :
                       /\ SubHas(st.dataMap, "domain", f)
                       /\ SubGet(st.dataMap, "domain", f) =
                             KeptOrDefault(st.input, "domain", f, DnsDefaults[f])
                 /\ Outside(st.dataMap.m["domain"].m, {"zone_id"} \cup DOMAIN DnsDefaults) =
                       Outside(st.input.m["domain"].m, {"zone_id"} \cup DOMAIN DnsDefaults)
                 /\ Delete(st.dataMap, "domain") = Delete(st.input, "domain")
            ELSE st.dataMap = st.input

C23_Witness ==
    \E p \in Procs :
        /\ StepReturned(proc[p]) /\ StepVersion(proc[p]) = 3
        /\ IsYMap(proc[p].input, "domain")
        /\ SubGet(proc[p].input, "domain", "create_domain_zone") = VBool(FALSE)
        /\ ~SubHas(proc[p].input, "domain", "zone_id")
        /\ SubGet(proc[p].input, "domain", "is_dns_root") = VBool(TRUE)
        /\ SubGet(proc[p].dataMap, "domain", "zone_id") = VStr(S_empty)
        /\ SubGet(proc[p].dataMap, "domain", "is_dns_root") = VBool(TRUE)
        /\ SubGet(proc[p].dataMap, "domain", "root_zone_id") = VStr(S_empty)

(***************************************************************************)
(* Properties of path resolution and of the error paths.                   *)
(***************************************************************************)
\* the candidates that were readable at the start, by position
ReadableAtStart == {i \in 1..Len(possiblePaths) : orig[possiblePaths[i]].kind # "missing"}

\* C24: loadEnvWithMigration uses the first readable file among name.yaml,
\* project/name.yaml, ../../project/name.yaml and ../name.yaml, never a later
\* one, and a migration backs up and rewrites that resolved path and no
\* other candidate.
C24_FirstReadableWins ==
    /\ \A p \in Procs :
          LET st == proc[p] IN
          st.op = "load" =>
              /\ st.err = "read" <=> ReadableAtStart = {}
              /\ st.err # "read" =>
                    \E i \in ReadableAtStart :
                        /\ st.path = possiblePaths[i]
                        /\ \A j \in ReadableAtStart : i <= j
    /\ \A i \in 1..Len(backups) :
          \E p \in Procs : proc[p].backedUp /\ proc[p].path = backups[i].path
    /\ \A path \in Paths :
          disk[path] # orig[path] =>
              \E p \in Procs : proc[p].backedUp /\ proc[p].path = path

C24_Witness ==
    \E p \in Procs :
        /\ proc[p].op = "load" /\ proc[p].pc = "done" /\ proc[p].err = "none"
        /\ proc[p].wrote
        /\ proc[p].path = "project/dev.yaml"
        /\ orig["dev.yaml"].kind = "missing"
        /\ detectSchemaVersion(orig["../dev.yaml"].doc) < CurrentSchemaVersion
        /\ orig["../dev.yaml"].kind = "yaml"
        /\ disk["../dev.yaml"] = orig["../dev.yaml"]
        /\ disk["project/dev.yaml"] # orig["project/dev.yaml"]
        /\ Len(backups) = 1 /\ backups[1].path = "project/dev.yaml"

\* C25: when no candidate is readable, loadEnvWithMigration fails with an
\* error that names all attempted paths, and there is no backup, no
\* migration and no write.
C25_AllPathsNamed ==
    \A p \in Procs :
        LET st == proc[p] IN
        (st.op = "load" /\ ReadableAtStart = {}) =>
            /\ st.pc = "done" /\ st.err = "read"
            /\ st.errPaths = Paths
            /\ ~st.backedUp /\ st.invoked = <<>> /\ ~st.wrote
            /\ disk = orig /\ backups = <<>> /\ writes = 0

\* C26: when the bytes read do not parse as a YAML mapping,
\* loadEnvWithMigration and MigrateYAMLFile return the parse error and do
\* nothing else: no backup, no migration step, no rewrite.
C26_ParseErrorStops ==
    /\ \A p \in Procs :
          LET st == proc[p] IN
          /\ st.data.kind = "garbage" =>
                /\ st.pc = "done" /\ st.err = "parse"
                /\ ~st.backedUp /\ st.invoked = <<>> /\ ~st.wrote
                /\ st.env = ZeroEnv
          /\ st.err = "parse" => st.data.kind = "garbage"
    /\ orig["project/dev.yaml"].kind = "garbage" =>
          disk = orig /\ backups = <<>> /\ writes = 0

C26_Witness ==
    \E p, q \in Procs :
        /\ proc[p].op = "load" /\ proc[p].err = "parse"
        /\ proc[q].op = "migrate" /\ proc[q].err = "parse"
        /\ disk = orig /\ backups = <<>> /\ writes = 0

\* the files the batch has to visit: the *.yaml entries that exist at the
\* start in project/, or in the current directory when project/ is absent
MatchedAtStart ==
    LET dir == IF orig["project"].kind = "missing" THEN "." ELSE "project"
    IN  {DirEntries[i].path : i \in {j \in 1..Len(DirEntries) :
            /\ DirEntries[j].dir = dir
            /\ orig[DirEntries[j].path].kind # "missing"
            /\ EndsWith(DirEntries[j].name, S_dot_yaml)}}

AttemptedFiles == {batch.attempted[i].file : i \in 1..Len(batch.attempted)}

\* C27: MigrateAllYAMLFiles attempts MigrateYAMLFile exactly once on every
\* matched *.yaml file of the project directory (or of the current directory
\* when project/ does not exist), goes on after a file fails, and returns
\* success for the batch even when some files failed.
C27_BatchContinues ==
    /\ batch.pc # "crashed"
    /\ AttemptedFiles \subseteq MatchedAtStart
    /\ Cardinality(AttemptedFiles) = Len(batch.attempted)
    /\ batch.pc = "done" =>
          /\ AttemptedFiles = MatchedAtStart
          /\ batch.ret = "nil"

\* a file content that carries an integer schema_version
IntStamp(c) == c.kind = "yaml" /\ StampOf(c.doc).t = "int"

StampIn(c) == StampOf(c.doc).n

\* C28: across any sequence of load/migrate operations on a file, the integer
\* schema_version stored on disk never decreases: a file stamped below
\* CurrentSchemaVersion is only ever restamped to CurrentSchemaVersion, and a
\* file stamped at or above it is left as it is.
C28_StampNeverDecreases ==
    [][\A path \in DOMAIN disk :
          LET old == disk[path]
              new == disk'[path]
          IN  /\ (IntStamp(orig[path]) /\ IntStamp(new)) =>
                    StampIn(new) >= StampIn(orig[path])
              /\ IntStamp(old) =>
                    /\ IntStamp(new) => StampIn(new) >= StampIn(old)
                    /\ (IntStamp(new) /\ new # old) =>
                          StampIn(new) = CurrentSchemaVersion
                    /\ StampIn(old) >= CurrentSchemaVersion => new = old]_vars

C28_Witness ==
    \E p, q \in Procs :
        /\ p < q
        /\ proc[p].op = "migrate" /\ proc[p].wrote /\ proc[p].err = "none"
        /\ proc[q].op = "load" /\ proc[q].pc = "done" /\ ~proc[q].wrote
        /\ IntStamp(orig["project/dev.yaml"])
        /\ StampIn(orig["project/dev.yaml"]) < CurrentSchemaVersion
        /\ IntStamp(disk["project/dev.yaml"])
        /\ StampIn(disk["project/dev.yaml"]) = CurrentSchemaVersion

\* the values for which the default helper gives the default
NotSet == {VNil, VStr(S_empty), VList(<<>>), VMap(NoMap), VSMap(NoMap)}

\* C29: the default helper returns the default argument exactly when the
\* value is nil, the empty string or an empty slice or map, and the value
\* itself otherwise; false, 0 and 0.0 are returned as they are.
C29_DefaultOnlyWhenNotSet ==
    LET st == proc[1] IN
    st.op = "default" =>
        /\ st.input \in NotSet => st.result = st.dataMap
        /\ st.input \notin NotSet => st.result = st.input
        /\ st.input \in {VBool(FALSE), VInt(0), VFloat(0)} => st.result = st.input

C29_Witness ==
    /\ proc[1].op = "default"
    /\ proc[1].input = VInt(0)
    /\ proc[1].dataMap = VInt(1)
    /\ proc[1].result = VInt(0)

\* the falsy values the statement lists
ListedFalsy == {VNil, VBool(FALSE), VInt(0), VFloat(0), VStr(S_empty), VList(<<>>)}

\* the falsy values of the source: the empty array and the empty map as well
Falsy == ListedFalsy \cup {VArray(<<>>), VMap(NoMap), VSMap(NoMap)}

HelpersAgree(falsy) ==
    LET st == proc[1] IN
    /\ st.op = "exists" => st.result = VBool(st.input # VNil)
    /\ st.op = "isTruthy" => st.result = VBool(st.input \notin falsy)
    /\ st.op = "or" =>
          st.result = VBool(st.input \notin falsy \/ st.dataMap \notin falsy)

\* C30 as stated: exists is true exactly for a non-nil value (true for 0,
\* 0.5, false and the empty string), truthiness is false for nil, false, 0,
\* 0.0, the empty string and empty slices and true otherwise, and or(a, b)
\* is true iff at least one argument is truthy.
C30_ExistsAndTruthiness == HelpersAgree(ListedFalsy)

\* C30, amended: exists is true exactly for a non-nil value; truthiness is
\* false for nil, false, 0, 0.0, the empty string and empty slices, arrays
\* and maps, and true otherwise; or(a, b) is true iff at least one argument
\* is truthy in that sense.
C30_EmptyMapsFalsy == HelpersAgree(Falsy)

C30_Witness ==
    /\ proc[1].op = "or"
    /\ proc[1].input = VMap(NoMap)
    /\ proc[1].dataMap = VBool(FALSE)
    /\ proc[1].result = VBool(FALSE)

\* C31: the registry is a fixed list whose target versions are unique,
\* strictly ascending in list order and contiguous from 2 to
\* CurrentSchemaVersion, the last entry carrying CurrentSchemaVersion; no
\* operation changes it.
C31_RegistryFixed ==
    /\ registry = AllMigrations
    /\ Len(registry) > 0
    /\ \A i, j \in 1..Len(registry) :
          /\ i # j => registry[i].Version # registry[j].Version
          /\ i < j => registry[i].Version < registry[j].Version
    /\ {registry[i].Version : i \in 1..Len(registry)} = 2..CurrentSchemaVersion
    /\ registry[Len(registry)].Version = CurrentSchemaVersion

C31_Witness ==
    \E p \in Procs :
        /\ proc[p].pc = "done" /\ proc[p].wrote
        /\ Len(proc[p].invoked) = Len(registry)
        /\ proc[p].invoked[1] = 2
        /\ Last(proc[p].invoked) = CurrentSchemaVersion

\* the step called once more on the document it returned
Again(st) == StepOf(StepVersion(st), st.dataMap)

AuroraKeys == {"aurora", "min_capacity", "max_capacity"}

V2Kept(in, out, keys) ==
    /\ Has(in, "alb") => Get(out, "alb") = Get(in, "alb")
    /\ ~Has(in, "alb") => Get(out, "alb") = VSMap([enabled |-> VBool(FALSE)])
    /\ Outside(out.m, {"alb", "postgres"}) = Outside(in.m, {"alb", "postgres"})
    /\ Has(out, "postgres") <=> Has(in, "postgres")
    /\ ~IsYMap(in, "postgres") => Get(out, "postgres") = Get(in, "postgres")
    /\ IsYMap(in, "postgres") =>
          /\ IsYMap(out, "postgres")
          /\ Outside(Get(out, "postgres").m, AuroraKeys)
                = Outside(Get(in, "postgres").m, AuroraKeys)
          /\ \A k \in keys :
                SubHas(in, "postgres", k) =>
                    /\ SubHas(out, "postgres", k)
                    /\ SubGet(out, "postgres", k) = SubGet(in, "postgres", k)

\* C33: migrateToV2 checks before every set: the alb block {enabled: false}
\* is added only when the alb key is absent, aurora, min_capacity and
\* max_capacity are added to an existing postgres map only where each is
\* absent, a min_capacity or max_capacity the document holds is never
\* changed, and no postgres block is created.
C33_V2CheckThenSet ==
    \A p \in Procs :
        (StepReturned(proc[p]) /\ StepVersion(proc[p]) = 2) =>
            V2Kept(proc[p].input, proc[p].dataMap, AuroraKeys)

\* the calls of one kind made so far, in order
CallsOf(name) == SelectSeq(aws.calls, LAMBDA c : c.call = name)

\* C34: credential validation retries at most once: at most two STS identity
\* calls and at most one SSO token refresh; a first failure that mentions SSO
\* or expired triggers one refresh followed by exactly one re-validation, a
\* failure of that re-validation is returned without further refresh, a
\* failure that mentions neither is returned without any retry, and a failed
\* refresh is returned without re-validation.
C34_RetriesAtMostOnce ==
    LET sts == CallsOf("sts")
        refresh == CallsOf("refresh")
        validate == CallsOf("validate")
    IN  /\ Len(sts) <= 2 /\ Len(refresh) <= 1 /\ Len(validate) <= 2
        /\ Len(refresh) = 1 =>
              /\ Len(sts) >= 1 /\ MentionsSSO(sts[1].out)
        /\ aws.pc = "done" =>
              /\ (Len(sts) >= 1 /\ sts[1].out # S_empty /\ MentionsSSO(sts[1].out)) =>
                    /\ Len(refresh) = 1
                    /\ refresh[1].out[2] => Len(validate) = 2
                    /\ ~refresh[1].out[2] =>
                          /\ Len(validate) = 1 /\ Len(sts) = 1
                          /\ aws.ret = "SSO token refresh failed"
              /\ (Len(sts) >= 1 /\ sts[1].out # S_empty /\ ~MentionsSSO(sts[1].out)) =>
                    /\ Len(refresh) = 0 /\ Len(validate) = 1 /\ Len(sts) = 1
                    /\ aws.ret = "failed to validate credentials"
              /\ (Len(sts) = 2 /\ sts[2].out # S_empty) =>
                    /\ Len(refresh) = 1
                    /\ Last(aws.calls).call = "sts"
                    /\ aws.ret = "failed to validate credentials"
              /\ aws.ret = "nil" <=> (Len(sts) >= 1 /\ Last(sts).out = S_empty)

C34_Witness ==
    /\ aws.pc = "done"
    /\ Len(CallsOf("sts")) = 2
    /\ MentionsSSO(CallsOf("sts")[1].out)
    /\ MentionsSSO(CallsOf("sts")[2].out)
    /\ Len(CallsOf("refresh")) = 1
    /\ aws.ret = "failed to validate credentials"

\* the postconditions of the shipped steps on a document
CurrentShape(d) ==
    /\ Has(d, "alb")
    /\ IsYMap(d, "postgres") => SubHas(d, "postgres", "aurora")
    /\ IsYMap(d, "domain") => \A f \in DOMAIN DnsDefaults : SubHas(d, "domain", f)
    /\ IsYMap(d, "workload") => \A f \in WorkloadKeys : SubHas(d, "workload", f)
    /\ Has(d, "use_default_vpc")
    /\ Has(d, "ecr_strategy")

\* the starting version came from the structure, not from an integer stamp
Sniffed(st) == StampOf(st.input).t # "int"

\* C35: every unstamped document that the runner brings to
\* CurrentSchemaVersion has the current schema shape: it satisfies the
\* postcondition of every step 2..CurrentSchemaVersion, the steps at or
\* below the inferred version, which were skipped, included.
C35_SniffedHasShape ==
    \A p \in Procs :
        LET st == proc[p] IN
        (ApplyReturnedOK(st) /\ Sniffed(st) /\ st.pc # "migrate") =>
            CurrentShape(st.dataMap)

\* the call read a file that parsed, without error, to the nil map
NilDocument(st) ==
    /\ st.op \in {"load", "migrate"}
    /\ st.pc # "idle"
    /\ st.err \notin {"read", "parse"}
    /\ st.input = VNil

\* C36: a file that parses to an empty document (a nil mapping) is handled
\* without a runtime crash by loadEnvWithMigration and MigrateYAMLFile: it is
\* detected as version 1 and every migration step, those that write
\* top-level keys included, completes on it.
C36_NilDocumentHandled ==
    \A p \in Procs :
        LET st == proc[p] IN
        NilDocument(st) =>
            /\ st.currentVersion = 1
            /\ st.err # "panic"
            /\ (st.pc = "done" /\ st.err = "none") => st.invoked = Expected(1)

\* C37: with the shipped registry no migration step returns an error: for
\* every non-nil document and every starting version below
\* CurrentSchemaVersion, applyMigrations returns success and the document
\* ends stamped with CurrentSchemaVersion; the step-failure path is never
\* taken.
C37_AlwaysSucceeds ==
    \A p \in Procs :
        LET st == proc[p] IN
        (st.op = "apply" /\ st.input # VNil
            /\ st.currentVersion < CurrentSchemaVersion) =>
            /\ st.err \notin {"migration", "panic"}
            /\ st.pc = "done" =>
                  /\ st.err = "none"
                  /\ StampOf(st.dataMap) = VInt(CurrentSchemaVersion)
                  /\ StampOf(mem) = VInt(CurrentSchemaVersion)

\* the domain an app is served under when it is built from subdomain_prefix:
\* prefix "." (env "." under env-prefixing, for a non-empty env other than
\* prod) domain_name
Rebuilt(d, prefix) ==
    LET dom == Get(d, "domain")
        domainName == StrAt(dom, "domain_name")
        addEnvPrefix == dom.t = "map" /\ "add_env_domain_prefix" \in DOMAIN dom.m
                            /\ dom.m["add_env_domain_prefix"] = VBool(TRUE)
        env == IF Get(d, "env").t = "str" THEN Get(d, "env").s ELSE S_empty
        envPart == IF addEnvPrefix /\ env # S_empty /\ env # S_prod
                   THEN env \o S_dot ELSE S_empty
    IN  prefix \o S_dot \o envPart \o domainName

\* C38: migrateToV9 loses no domain information: whenever it removes an
\* app's custom_domain it has set subdomain_prefix to a non-empty value from
\* which the removed domain can be rebuilt (prefix, a dot, the environment
\* and a dot under env-prefixing, the base domain).
C38_DomainRebuilt ==
    \A p \in Procs :
        LET st == proc[p] IN
        (StepReturned(st) /\ StepVersion(st) = 9) =>
            \A i \in 1..Len(AppsOf(st.input)) :
                LET app == AppsOf(st.input)[i]
                    out == AppsOf(st.dataMap)[i]
                IN  (app.t = "map" /\ "custom_domain" \in DOMAIN app.m
                        /\ "custom_domain" \notin DOMAIN out.m) =>
                        /\ "subdomain_prefix" \in DOMAIN out.m
                        /\ StrAt(out, "subdomain_prefix") # S_empty
                        /\ Rebuilt(st.input, StrAt(out, "subdomain_prefix"))
                              = StrAt(app, "custom_domain")

\* the file both calls work on
RacePath == "project/dev.yaml"

\* the bytes one migration run alone writes for the original file
SingleRun ==
    LET d == orig[RacePath].doc
    IN  Marshal(Stamped(Chain(d, Expected(detectSchemaVersion(d)))))

Rewritten == \E p \in Procs : proc[p].wrote

\* artifact j was written under the name of artifact i
SameName(i, j) == backups[j].path = backups[i].path /\ backups[j].at = backups[i].at

\* an artifact with the original bytes was written and no later artifact
\* of the same name replaced it
OriginalKept ==
    \E i \in 1..Len(backups) :
        /\ backups[i].content = orig[backups[i].path]
        /\ \A j \in (i + 1)..Len(backups) : ~SameName(i, j)

\* no call is running and none failed to write
Settled == \A p \in Procs : proc[p].pc = "done" /\ proc[p].err # "write"

\* C39 as stated: when two loads or migrations of the same out-of-date file
\* interleave, then once the file has been rewritten a backup artifact with
\* the original bytes still exists, and the final on-disk file equals the
\* result of a single migration run.
C39_BackupSurvivesRace ==
    Rewritten =>
        /\ OriginalKept
        /\ Settled => disk[RacePath] = SingleRun

\* C39, amended: the first backup taken holds the original bytes and is
\* taken before any rewrite, and the final file equals the result of a
\* single run; an artifact with the original bytes is missing afterwards
\* only when a later backup of the same second, taken once the file had
\* been touched, replaced it under the same name.
C39_OriginalUnlessSameSecond ==
    /\ Len(backups) > 0 => backups[1].content = orig[backups[1].path]
    /\ Rewritten =>
          /\ Len(backups) > 0
          /\ Settled => disk[RacePath] = SingleRun
          /\ ~OriginalKept =>
                \E i, j \in 1..Len(backups) :
                    /\ i < j /\ SameName(i, j)
                    /\ backups[i].content = orig[backups[i].path]
                    /\ backups[j].content # orig[backups[j].path]

C39_Witness ==
    /\ Rewritten /\ Settled
    /\ \A p \in Procs : proc[p].wrote /\ proc[p].err = "none"
    /\ ~OriginalKept
    /\ Len(backups) = 2
    /\ disk[RacePath] = SingleRun

====
